---- MODULE Spec2Model ----
(***************************************************************************)
(* The commit timeline of git-viewer (src/src/git_viewer/timeline_panel.py) *)
(* as a state machine: the TimelinePanel on the wx main thread, the worker *)
(* threads that refresh_timeline starts, and the repository they read.     *)
(***************************************************************************)
EXTENDS Integers, Sequences, FiniteSets, TLC

(***************************************************************************)
(* Bounds of the model.                                                    *)
(***************************************************************************)
\* refresh requests (worker threads) in one run
MaxRefresh == 2

(***************************************************************************)
(* Program constants.                                                      *)
(***************************************************************************)
\* wx.SpinCtrl(left_panel, value="50", min=10, max=1000)
SpinMin == 10
SpinDefault == 50
SpinMax == 1000

Gens == 1 .. MaxRefresh
ListIds == 0 .. MaxRefresh

(***************************************************************************)
(* The repository: a fixed history.  Commit 1 is the root, commit 2 the    *)
(* tip of main, commit 3 the tip of dev; both have commit 1 as parent.     *)
(* Commits are numbered in commit-date order.  An unborn repository has no *)
(* commit and no branch, and HEAD names the branch main.  A wide           *)
(* repository has eight more branches: merged, whose tip 4 merges commits  *)
(* 2 and 3, and b1 .. b7, whose tip 5 is a child of commit 2.              *)
(***************************************************************************)
RepoKinds == {"born", "unborn"}
Commits == {1, 2, 3, 4, 5}
BranchNames == {"dev", "main"}

\* every branch name of the model, in lexicographic order
BranchOrder ==
  << "b1", "b2", "b3", "b4", "b5", "b6", "b7", "dev", "main", "merged" >>

Parents(c) ==
  IF c = 1 THEN << >>
  ELSE IF c = 4 THEN << 2, 3 >>
  ELSE IF c = 5 THEN << 2 >>
  ELSE << 1 >>

Tip(b) ==
  IF b = "main" THEN 2
  ELSE IF b = "dev" THEN 3
  ELSE IF b = "merged" THEN 4
  ELSE 5

RECURSIVE Ancestors(_)
\* the commits reachable from c by parent edges, c included
Ancestors(c) ==
  {c} \cup UNION {Ancestors(Parents(c)[i]) : i \in 1 .. Len(Parents(c))}

\* repo.is_ancestor(a, d): git merge-base --is-ancestor a d
is_ancestor(a, d) == a \in Ancestors(d)

RECURSIVE SortedDesc(_)
\* a set of commits, most recent first (git rev-list's order)
SortedDesc(S) ==
  IF S = {} THEN << >>
  ELSE LET m == CHOOSE x \in S : \A y \in S : y <= x
       IN  << m >> \o SortedDesc(S \ {m})

\* sorted(names) for the branch names of the model
SortedNames(S) == SelectSeq(BranchOrder, LAMBDA b : b \in S)

Take(s, n) == IF Len(s) <= n THEN s ELSE SubSeq(s, 1, n)

VARIABLES
  repo,           \* self.repo: "none" or the kind of the repository loaded
  heads,          \* the repository's local branches (repo.heads)
  items,          \* the entries of self.branch_choice
  selection,      \* self.branch_choice.GetSelection(), 0-based, -1 none
  timeline_data,  \* self.timeline_data: the list object it is bound to
  lists,          \* the list objects: list id -> sequence of records
  branch_colors,  \* self.branch_colors: branch name -> palette index
  stats_text,     \* self.stats_text's label
  painted,        \* the kind of batch on_timeline_paint drew last
  queue,          \* wx.CallAfter's pending calls, in order
  nreq,           \* threads started by refresh_timeline so far
  pc,             \* each worker's position
  wsel,           \* worker local: selection
  wlim,           \* worker local: limit
  wcommits,       \* worker local: commits
  widx,           \* worker local: position in the loop it is in
  wlist,          \* worker local: the list _calculate_branch_info iterates
  wnames,         \* worker local: branch_names
  wbuilt,         \* records the worker has built and appended
  wstage,         \* how far the worker got: its walk, its branch pass
  updateCalls,    \* _update_timeline_ui calls made for each worker
  errorCalls,     \* _on_timeline_error calls made for each worker
  file_blob,      \* a file at a commit: calculate_file_tloc_at_commit's input
  file_fails,     \* whether git show fails on it for another reason
  file_tloc,      \* what calculate_file_tloc_at_commit did on it
  rec_commit,     \* the commit of a CommitTimelineData built on its own
  rec_faults,     \* the calls that fail while it is built
  rec_out,        \* << >>, or the record once it is built
  tree_in,        \* the tree of a calculate_project_tloc_at_commit call
  tree_out,       \* << >>, or the totals once the call has returned
  tree_reads,     \* the paths whose content the call read, in order
  selected_commit, \* self.selected_commit: << >> for None, or the record
                  \* it refers to, as << list object, position >>
  lanes,          \* the branch columns on_timeline_paint drew last
  csv_file,       \* << >> while no file is written, or << its rows >>
  export_box,     \* the title of the last message box of an export
  raised_at,      \* the records at which an ancestry test has raised
  code_path,      \* the path is_code_file is called with
  code_out        \* what its calls returned, in order

panelVars == << repo, items, selection, timeline_data, lists,
                branch_colors, stats_text, painted, queue, nreq >>
workerVars == << pc, wsel, wlim, wcommits, widx, wlist, wnames, wbuilt,
                wstage >>
vars == << repo, heads, items, selection, timeline_data, lists,
           branch_colors, stats_text, painted, queue, nreq, pc, wsel, wlim,
           wcommits, widx, wlist, wnames, wbuilt, wstage, updateCalls,
           errorCalls, file_blob, file_fails, file_tloc, rec_commit,
           rec_faults, rec_out, tree_in, tree_out, tree_reads,
           selected_commit, lanes, csv_file, export_box, raised_at, code_path,
           code_out >>
recVars == << rec_commit, rec_faults, rec_out >>
treeVars == << tree_in, tree_out, tree_reads >>
uiVars == << selected_commit, lanes, csv_file, export_box, raised_at >>
pathVars == << code_path, code_out >>
fileVars ==
  << file_blob, file_fails, file_tloc, recVars, treeVars, uiVars, pathVars >>

(***************************************************************************)
(* Text: a string is a sequence of characters.                             *)
(***************************************************************************)
UpperCase ==
  << "A", "B", "C", "D", "E", "F", "G", "H", "I", "J", "K", "L", "M", "N",
     "O", "P", "Q", "R", "S", "T", "U", "V", "W", "X", "Y", "Z" >>

LowerCase ==
  << "a", "b", "c", "d", "e", "f", "g", "h", "i", "j", "k", "l", "m", "n",
     "o", "p", "q", "r", "s", "t", "u", "v", "w", "x", "y", "z" >>

\* str.lower() on one character
LowerChar(ch) ==
  IF \E i \in 1 .. 26 : UpperCase[i] = ch
    THEN LowerCase[CHOOSE i \in 1 .. 26 : UpperCase[i] = ch]
  ELSE ch

RECURSIVE lower(_)
\* str.lower()
lower(s) ==
  IF s = << >> THEN << >> ELSE << LowerChar(Head(s)) >> \o lower(Tail(s))

\* s.find(ch) and s.rfind(ch), counting from 1; 0 when ch is not in s
Find(s, ch) ==
  IF \E i \in 1 .. Len(s) : s[i] = ch
    THEN CHOOSE i \in 1 .. Len(s) :
           s[i] = ch /\ \A j \in 1 .. i - 1 : s[j] # ch
  ELSE 0

RFind(s, ch) ==
  IF \E i \in 1 .. Len(s) : s[i] = ch
    THEN CHOOSE i \in 1 .. Len(s) :
           s[i] = ch /\ \A j \in i + 1 .. Len(s) : s[j] # ch
  ELSE 0

\* os.path.splitext(p)[1]: from the last dot of the last component, unless
\* only dots precede it there
splitext(p) ==
  LET sepIndex == RFind(p, "/")
      dotIndex == RFind(p, ".")
  IN  IF dotIndex > sepIndex
         /\ \E k \in sepIndex + 1 .. dotIndex - 1 : p[k] # "."
        THEN SubSeq(p, dotIndex, Len(p))
      ELSE << >>

\* os.path.basename(p)
basename(p) == SubSeq(p, RFind(p, "/") + 1, Len(p))

\* s.split('.')[0]
SplitDotFirst(s) ==
  IF Find(s, ".") = 0 THEN s ELSE SubSeq(s, 1, Find(s, ".") - 1)

\* the characters str.strip() removes, among those of the model
Whitespace == {" ", "\t", "\n"}

RECURSIVE lstrip(_)
lstrip(s) ==
  IF s # << >> /\ Head(s) \in Whitespace THEN lstrip(Tail(s)) ELSE s

RECURSIVE rstrip(_)
rstrip(s) ==
  IF s # << >> /\ s[Len(s)] \in Whitespace
    THEN rstrip(SubSeq(s, 1, Len(s) - 1))
  ELSE s

\* str.strip()
strip(s) == rstrip(lstrip(s))

\* str.splitlines(): the lines of a text without their line breaks; a final
\* line break opens no further line
splitlines(s) ==
  LET breaks == {i \in 1 .. Len(s) : s[i] = "\n"}
      \* the k-th line break
      Break(k) ==
        CHOOSE i \in breaks : Cardinality({j \in breaks : j < i}) = k - 1
      open == IF s # << >> /\ s[Len(s)] # "\n" THEN 1 ELSE 0
      first(k) == IF k = 1 THEN 1 ELSE Break(k - 1) + 1
      last(k) == IF k <= Cardinality(breaks) THEN Break(k) - 1 ELSE Len(s)
  IN  [k \in 1 .. Cardinality(breaks) + open |->
         SubSeq(s, first(k), last(k))]

(***************************************************************************)
(* TlocCalculator.                                                         *)
(***************************************************************************)
CODE_EXTENSIONS ==
  { << ".", "p", "y" >>, << ".", "j", "s" >>, << ".", "t", "s" >>,
    << ".", "j", "s", "x" >>, << ".", "t", "s", "x" >>,
    << ".", "j", "a", "v", "a" >>, << ".", "c" >>,
    << ".", "c", "p", "p" >>, << ".", "c", "c" >>,
    << ".", "c", "x", "x" >>, << ".", "h" >>, << ".", "h", "p", "p" >>,
    << ".", "c", "s" >>, << ".", "p", "h", "p" >>, << ".", "r", "b" >>,
    << ".", "g", "o" >>, << ".", "r", "s" >>, << ".", "k", "t" >>,
    << ".", "s", "w", "i", "f", "t" >>, << ".", "m" >>,
    << ".", "m", "m" >>, << ".", "s", "c", "a", "l", "a" >>,
    << ".", "c", "l", "j" >>, << ".", "h", "s" >>, << ".", "m", "l" >>,
    << ".", "f", "s" >>, << ".", "v", "b" >>, << ".", "p", "a", "s" >>,
    << ".", "d" >>, << ".", "n", "i", "m" >>, << ".", "c", "r" >>,
    << ".", "j", "l" >>, << ".", "e", "l", "m" >>,
    << ".", "d", "a", "r", "t" >>, << ".", "v" >>, << ".", "s", "v" >>,
    << ".", "v", "h", "d" >>, << ".", "v", "h", "d", "l" >>,
    << ".", "t", "c", "l" >>, << ".", "r" >>, << ".", "R" >>,
    << ".", "s", "h" >>, << ".", "b", "a", "s", "h" >>,
    << ".", "z", "s", "h" >>, << ".", "f", "i", "s", "h" >>,
    << ".", "p", "s", "1" >>, << ".", "b", "a", "t" >>,
    << ".", "c", "m", "d" >>, << ".", "p", "l" >>, << ".", "p", "m" >>,
    << ".", "l", "u", "a" >>, << ".", "s", "q", "l" >>,
    << ".", "h", "t", "m", "l" >>, << ".", "h", "t", "m" >>,
    << ".", "c", "s", "s" >>, << ".", "s", "c", "s", "s" >>,
    << ".", "s", "a", "s", "s" >>, << ".", "l", "e", "s", "s" >>,
    << ".", "x", "m", "l" >>, << ".", "j", "s", "o", "n" >>,
    << ".", "y", "a", "m", "l" >>, << ".", "y", "m", "l" >>,
    << ".", "t", "o", "m", "l" >>, << ".", "i", "n", "i" >>,
    << ".", "c", "f", "g" >>, << ".", "c", "o", "n", "f" >>,
    << ".", "m", "d" >>, << ".", "t", "e", "x" >>,
    << ".", "m", "a", "k", "e", "f", "i", "l", "e" >>,
    << ".", "c", "m", "a", "k", "e" >>,
    << ".", "g", "r", "a", "d", "l", "e" >>,
    << ".", "m", "a", "v", "e", "n" >>, << ".", "a", "n", "t" >>,
    << ".", "s", "b", "t" >>, << ".", "m", "i", "x" >>,
    << ".", "e", "x" >>, << ".", "e", "x", "s" >>,
    << ".", "e", "r", "l" >>, << ".", "h", "r", "l" >>,
    << ".", "p", "r", "o", "t", "o" >>,
    << ".", "t", "h", "r", "i", "f", "t" >>, << ".", "a", "v", "r", "o" >>,
    << ".", "c", "a", "p", "n", "p" >>, << ".", "f", "b", "s" >> }

code_filenames ==
  { << "m", "a", "k", "e", "f", "i", "l", "e" >>,
    << "d", "o", "c", "k", "e", "r", "f", "i", "l", "e" >>,
    << "v", "a", "g", "r", "a", "n", "t", "f", "i", "l", "e" >>,
    << "g", "e", "m", "f", "i", "l", "e" >>,
    << "r", "a", "k", "e", "f", "i", "l", "e" >>,
    << "g", "r", "u", "n", "t", "f", "i", "l", "e" >>,
    << "g", "u", "l", "p", "f", "i", "l", "e" >>,
    << "w", "e", "b", "p", "a", "c", "k" >>,
    << "r", "o", "l", "l", "u", "p" >>, << "v", "i", "t", "e" >>,
    << "j", "e", "s", "t" >>, << "b", "a", "b", "e", "l" >>,
    << "e", "s", "l", "i", "n", "t" >>,
    << "p", "r", "e", "t", "t", "i", "e", "r" >>,
    << "t", "s", "c", "o", "n", "f", "i", "g" >>,
    << "p", "a", "c", "k", "a", "g", "e" >>,
    << "c", "o", "m", "p", "o", "s", "e", "r" >>,
    << "r", "e", "q", "u", "i", "r", "e", "m", "e", "n", "t", "s" >>,
    << "p", "i", "p", "f", "i", "l", "e" >>,
    << "p", "o", "e", "t", "r", "y" >>, << "c", "a", "r", "g", "o" >>,
    << "g", "o", ".", "m", "o", "d" >>, << "g", "o", ".", "s", "u", "m" >> }

\* a classification that looks at the file: a path that names no file in
\* the commit is not a code file
IsCodeFileIfPresent(filepath) ==
  /\ file_blob.exists
  /\ \/ splitext(lower(filepath)) \in CODE_EXTENSIONS
     \/ SplitDotFirst(basename(lower(filepath))) \in code_filenames

\* TlocCalculator.is_code_file
is_code_file(filepath) ==
  LET ext == splitext(lower(filepath))
      filename == basename(lower(filepath))
      base_name == SplitDotFirst(filename)
  IN  ext \in CODE_EXTENSIONS \/ base_name \in code_filenames

\* (total_lines, code_lines, blank_lines) of an absent or unreadable file
ZeroTloc == << 0, 0, 0 >>

\* repo.git.show("<commit>:<path>") on a blob: the command's output, from
\* which the library drops one final line break; it raises when the path is
\* not in the commit's tree, or when the command fails
git_show(blob, fails) ==
  IF fails \/ ~blob.exists THEN [ok |-> FALSE, text |-> << >>]
  ELSE [ok |-> TRUE,
        text |-> IF blob.text # << >> /\ blob.text[Len(blob.text)] = "\n"
                   THEN SubSeq(blob.text, 1, Len(blob.text) - 1)
                 ELSE blob.text]

\* lines = content.splitlines() and the three counts taken from it
LineCounts(content) ==
  LET lines == splitlines(content)
      total_lines == Len(lines)
      blank_lines ==
        Cardinality({i \in 1 .. total_lines : strip(lines[i]) = << >>})
      code_lines == total_lines - blank_lines
  IN  << total_lines, code_lines, blank_lines >>

\* what a call returns: its value, or that it raised
Returned(v) == [raised |-> FALSE, value |-> v]
Raised == [raised |-> TRUE, value |-> ZeroTloc]

\* the counting without its exception handlers: a failed show raises
UncaughtShow(shown) ==
  IF ~shown.ok THEN Raised ELSE Returned(LineCounts(shown.text))

\* TlocCalculator.calculate_file_tloc_at_commit, given what git show did
calculate_file_tloc_at_commit(shown) ==
  IF ~shown.ok THEN Returned(ZeroTloc)
  ELSE Returned(LineCounts(shown.text))

(***************************************************************************)
(* The version-control library, as the panel uses it.                      *)
(***************************************************************************)
\* repo.heads, in the library's (refname) order
HeadsSeq(hs) == SortedNames(hs)

\* repo.active_branch.name: HEAD names main, also while it is unborn
ActiveBranchName(kind) == "main"

\* the commits of the repository's branches
HeadsOf(kind) ==
  IF kind = "born" THEN BranchNames
  ELSE IF kind = "wide" THEN {BranchOrder[i] : i \in 1 .. Len(BranchOrder)}
  ELSE {}

\* the commit HEAD resolves to; 0 when HEAD is unborn, commit 1 once it
\* is checked out and HEAD is detached
HeadCommit(kind) ==
  IF kind = "unborn" THEN 0
  ELSE IF kind = "detached" THEN 1
  ELSE Tip("main")

\* list(repo.iter_commits(rev, max_count=n)): the commits, most recent
\* first, or that git rev-list failed on the revision
WalkOk(cs, n) == [ok |-> TRUE, commits |-> Take(cs, n)]
WalkError == [ok |-> FALSE, commits |-> << >>]

IterCommits(kind, hs, rev, n) ==
  IF rev = "--all"
    THEN WalkOk(SortedDesc(UNION {Ancestors(Tip(b)) : b \in hs}
                           \cup (IF HeadCommit(kind) = 0 THEN {}
                                 ELSE Ancestors(HeadCommit(kind)))), n)
  ELSE IF rev = "HEAD"
    THEN IF HeadCommit(kind) = 0 THEN WalkError
         ELSE WalkOk(SortedDesc(Ancestors(HeadCommit(kind))), n)
  ELSE IF rev \in hs THEN WalkOk(SortedDesc(Ancestors(Tip(rev))), n)
  ELSE WalkError

(***************************************************************************)
(* The files of the history.  Commit 1 adds Makefile and a.py (10 lines, 2 *)
(* of them blank); commit 2 changes a.py (15 lines, 3 blank) and adds      *)
(* b.txt; commit 3 deletes a.py.  Commit 4, the merge, has the tree of its *)
(* first parent.  Commit 5 renames a.py to c.py and adds d.py, two lines   *)
(* of which the last is empty.                                             *)
(***************************************************************************)
PathMakefile == << "M", "a", "k", "e", "f", "i", "l", "e" >>
PathA == << "a", ".", "p", "y" >>
PathB == << "b", ".", "t", "x", "t" >>
PathC == << "c", ".", "p", "y" >>
PathD == << "d", ".", "p", "y" >>

\* every path of the history, in the order git lists paths
AllPaths == << PathMakefile, PathA, PathB, PathC, PathD >>

RECURSIVE Text(_)
\* the text of a file from its lines, each ended by a line break
Text(lines) ==
  IF lines = << >> THEN << >>
  ELSE Head(lines) \o << "\n" >> \o Text(Tail(lines))

LineX == << "x", " ", "x" >>
LineEmpty == << >>
LineSpaces == << " ", "\t" >>

TextA10 ==
  Text(<< LineX, LineX, LineEmpty, LineX, LineX, LineSpaces, LineX, LineX,
          LineX, LineX >>)

TextA15 ==
  Text(<< LineX, LineX, LineEmpty, LineX, LineX, LineSpaces, LineX, LineX,
          LineX, LineX, LineX, LineEmpty, LineX, LineX, LineX >>)

TextMakefile == Text(<< << "a", "l", "l", ":" >>, << "\t", "x" >> >>)

TextB == Text(<< LineX >>)

TextD == Text(<< LineX, LineEmpty >>)

Blob(text) == [exists |-> TRUE, text |-> text]
NoBlob == [exists |-> FALSE, text |-> << >>]

\* the blob at a path of a commit's tree
BlobAt(c, path) ==
  IF path = PathMakefile THEN Blob(TextMakefile)
  ELSE IF path = PathA /\ c = 1 THEN Blob(TextA10)
  ELSE IF path = PathA /\ c \in {2, 4} THEN Blob(TextA15)
  ELSE IF path = PathB /\ c \in {2, 4, 5} THEN Blob(TextB)
  ELSE IF path = PathC /\ c = 5 THEN Blob(TextA15)
  ELSE IF path = PathD /\ c = 5 THEN Blob(TextD)
  ELSE NoBlob

\* repo.git.ls_tree('-r', '--name-only', commit).splitlines()
TreePaths(c) == SelectSeq(AllPaths, LAMBDA p : BlobAt(c, p).exists)

\* one entry of a diff
Change(type, a, b) == [change_type |-> type, a_path |-> a, b_path |-> b]

\* the blob at a path of tree p, where 0 is the empty tree
BlobIn(p, path) == IF p = 0 THEN NoBlob ELSE BlobAt(p, path)

\* rename detection (the library asks git for it, -M): path new, added in
\* c, has the content of a path that tree p holds and c does not; the
\* result is that old path, or the empty path when there is none
RenamedFrom(p, c, new) ==
  LET olds == SelectSeq(AllPaths, LAMBDA old :
                /\ BlobIn(p, old).exists
                /\ ~BlobAt(c, old).exists
                /\ ~BlobIn(p, new).exists
                /\ BlobAt(c, new).exists
                /\ BlobIn(p, old).text = BlobAt(c, new).text)
  IN  IF olds = << >> THEN << >> ELSE olds[1]

\* path old, deleted in c, is the source of a rename
RenamedTo(p, c, old) ==
  \E i \in 1 .. Len(AllPaths) : RenamedFrom(p, c, AllPaths[i]) = old

RECURSIVE DiffOver(_, _, _)
\* the entries of the diff from tree p (0: the empty tree) to tree c over
\* the paths ps; a rename is one entry, listed at its new path
DiffOver(p, c, ps) ==
  IF ps = << >> THEN << >>
  ELSE LET path == Head(ps)
           old == BlobIn(p, path)
           new == BlobAt(c, path)
           entry ==
             IF ~old.exists /\ new.exists
               THEN IF RenamedFrom(p, c, path) # << >>
                      THEN << Change("R", RenamedFrom(p, c, path), path) >>
                    ELSE << Change("A", path, path) >>
             ELSE IF old.exists /\ ~new.exists
               THEN IF RenamedTo(p, c, path) THEN << >>
                    ELSE << Change("D", path, path) >>
             ELSE IF old.exists /\ new.exists /\ old.text # new.text
               THEN << Change("M", path, path) >>
             ELSE << >>
       IN  entry \o DiffOver(p, c, Tail(ps))

\* parent_commit.diff(commit), or commit.diff(git.NULL_TREE) for a root
Diff(c) ==
  DiffOver(IF Parents(c) = << >> THEN 0 ELSE Parents(c)[1], c, AllPaths)

(***************************************************************************)
(* Failing reads.  A record is built under a set of failing calls: the     *)
(* diff, the tree listing, and the content reads by call site and path.    *)
(***************************************************************************)
CallDiff == << "diff", << >> >>
CallLsTree == << "ls_tree", << >> >>
CallShow(site, path) == << site, path >>

\* no call fails
NoFault == {}

\* the calls that can fail while one record is built
FaultCalls ==
  {CallDiff, CallLsTree}
    \cup {CallShow(site, AllPaths[i]) :
            site \in {"after", "before", "sample"},
            i \in 1 .. Len(AllPaths)}

\* at most this many calls fail while one batch is built
MaxFaults == 1

FaultSets == {f \in SUBSET FaultCalls : Cardinality(f) <= MaxFaults}

(***************************************************************************)
(* TlocCalculator.calculate_project_tloc_at_commit.                        *)
(***************************************************************************)
\* sample_size = min(10, len(code_files))
SampleCap == 10

Min(a, b) == IF a <= b THEN a ELSE b

ZeroTotals ==
  [total_lines |-> 0, code_lines |-> 0, blank_lines |-> 0, file_count |-> 0]

\* code_files = [f for f in files if cls.is_code_file(f)], counting every
\* listed path as a code file
AllFiles(files) == files

\* code_files = [f for f in files if cls.is_code_file(f)]
CodeFiles(files) == SelectSeq(files, is_code_file)

\* sample_files without the cap: every code file of the tree is read
WholeTree(code_files) == code_files

\* sample_files = code_files[:sample_size]
SampleFiles(code_files) ==
  SubSeq(code_files, 1, Min(SampleCap, Len(code_files)))

\* a tree as the aggregator meets it: whether ls-tree succeeds, the paths
\* it lists, the blob of each, and the paths whose content read fails
Tree(listed, files, blob, fails) ==
  [listed |-> listed, files |-> files, blob |-> blob, fails |-> fails]

\* the calculate_file_tloc_at_commit calls of one aggregation, in order:
\* the path read and what the call returned
SampleReads(tree) ==
  IF ~tree.listed THEN << >>
  ELSE LET sample_files == SampleFiles(CodeFiles(tree.files))
       IN  [i \in 1 .. Len(sample_files) |->
              [path |-> sample_files[i],
               result |-> calculate_file_tloc_at_commit(
                            git_show(tree.blob[sample_files[i]],
                                     sample_files[i] \in tree.fails))]]

RECURSIVE SampleSum(_)
\* total_lines_sample over the reads: a read that raises is skipped
SampleSum(reads) ==
  IF reads = << >> THEN 0
  ELSE (IF Head(reads).result.raised THEN 0
        ELSE Head(reads).result.value[2])
         + SampleSum(Tail(reads))

\* an estimate that is never below one line for each code file
EstimateAtLeastOne(total_lines_sample, sample_size, count) ==
  [total_lines |-> count, code_lines |-> count, blank_lines |-> 0]

\* an estimate whose blank lines are a fifth of the code lines, rounded up
\* on their own
EstimateBlankRoundedUp(total_lines_sample, sample_size, count) ==
  LET estimated_total == (total_lines_sample * count) \div sample_size
  IN  [total_lines |-> (estimated_total * 6) \div 5,
       code_lines |-> estimated_total,
       blank_lines |-> (estimated_total + 4) \div 5]

\* the triples (total_lines_sample, sample_size, count), with sums up to
\* 70 and counts up to 16, for which the floating-point product
\* (total_lines_sample / sample_size) * count falls just below the whole
\* number it stands for: 61 / 7 is 8.714285714285714 and 7 times that is
\* 60.99999999999999
FloatShort == {<< 61, 7, 7 >>}

\* int((total_lines_sample / sample_size) * count) in floating point: the
\* whole part of the exact quotient, but for the triples above
IntOfAverageTimes(total_lines_sample, sample_size, count) ==
  (total_lines_sample * count) \div sample_size
    - (IF << total_lines_sample, sample_size, count >> \in FloatShort
         THEN 1 ELSE 0)

\* the estimate from the sample, lines 135-141.  int(estimated_total * 1.2)
\* is the whole part of six fifths for every estimate below 2000.
Estimate(total_lines_sample, sample_size, count) ==
  LET estimated_total ==
        IntOfAverageTimes(total_lines_sample, sample_size, count)
      total_lines == (estimated_total * 6) \div 5
  IN  IF total_lines_sample > 0
        THEN [total_lines |-> total_lines,
              code_lines |-> estimated_total,
              blank_lines |-> total_lines - estimated_total]
      ELSE [total_lines |-> 0, code_lines |-> 0, blank_lines |-> 0]

\* result['totals'] of calculate_project_tloc_at_commit on a tree
ProjectTotals(tree) ==
  IF ~tree.listed THEN ZeroTotals
  ELSE
    LET code_files == CodeFiles(tree.files)
        sample_size == Min(SampleCap, Len(code_files))
        total_lines_sample == SampleSum(SampleReads(tree))
        est == IF sample_size > 0
                 THEN Estimate(total_lines_sample, sample_size,
                               Len(code_files))
               ELSE [total_lines |-> 0, code_lines |-> 0, blank_lines |-> 0]
    IN  [total_lines |-> est.total_lines,
         code_lines |-> est.code_lines,
         blank_lines |-> est.blank_lines,
         file_count |-> Len(code_files)]

\* the tree of commit c while the calls f fail
TreeOf(c, f) ==
  Tree(CallLsTree \notin f, TreePaths(c),
       [p \in {AllPaths[i] : i \in 1 .. Len(AllPaths)} |-> BlobAt(c, p)],
       {AllPaths[i] : i \in {k \in 1 .. Len(AllPaths) :
                               CallShow("sample", AllPaths[k]) \in f}})

calculate_project_tloc_at_commit(c, f) == ProjectTotals(TreeOf(c, f))

(***************************************************************************)
(* CommitTimelineData: one record of the batch.                            *)
(***************************************************************************)
\* file_path = change.b_path or change.a_path
FilePath(change) ==
  IF change.b_path # << >> THEN change.b_path ELSE change.a_path

\* the paths of the entries of one change type
PathsOfType(diff, type) ==
  LET sel == SelectSeq(diff, LAMBDA ch : ch.change_type = type)
  IN  [i \in 1 .. Len(sel) |-> FilePath(sel[i])]

\* after_tloc read without the handlers of the counting
AfterTlocUncaught(c, change, f) ==
  IF change.change_type # "D"
    THEN UncaughtShow(
           git_show(BlobAt(c, FilePath(change)),
                    CallShow("after", FilePath(change)) \in f))
  ELSE Returned(ZeroTloc)

\* after_tloc of one entry
AfterTloc(c, change, f) ==
  IF change.change_type # "D"
    THEN calculate_file_tloc_at_commit(
           git_show(BlobAt(c, FilePath(change)),
                    CallShow("after", FilePath(change)) \in f))
  ELSE Returned(ZeroTloc)

\* before_tloc read at the commit itself when there is no parent to read
BeforeTlocAtCommit(c, change, f) ==
  calculate_file_tloc_at_commit(
    git_show(BlobAt(IF Parents(c) # << >> THEN Parents(c)[1] ELSE c,
                    FilePath(change)),
             CallShow("before", FilePath(change)) \in f))

\* before_tloc of one entry
BeforeTloc(c, change, f) ==
  IF change.change_type # "A" /\ Parents(c) # << >>
    THEN calculate_file_tloc_at_commit(
           git_show(BlobAt(Parents(c)[1], FilePath(change)),
                    CallShow("before", FilePath(change)) \in f))
  ELSE Returned(ZeroTloc)

\* the entries with a tloc_changes item when the counts are taken for
\* every changed file, code or not
TlocEntriesAnyFile(c, diff, f) ==
  {i \in 1 .. Len(diff) :
     /\ FilePath(diff[i]) # << >>
     /\ ~AfterTloc(c, diff[i], f).raised
     /\ ~BeforeTloc(c, diff[i], f).raised}

\* the entries that get a tloc_changes item: code files whose two counts
\* were taken without an exception
TlocEntries(c, diff, f) ==
  {i \in 1 .. Len(diff) :
     /\ FilePath(diff[i]) # << >>
     /\ is_code_file(FilePath(diff[i]))
     /\ ~AfterTloc(c, diff[i], f).raised
     /\ ~BeforeTloc(c, diff[i], f).raised}

\* self.tloc_changes
TlocChanges(c, diff, f) ==
  [path \in {FilePath(diff[i]) : i \in TlocEntries(c, diff, f)} |->
     LET i == CHOOSE k \in TlocEntries(c, diff, f) : FilePath(diff[k]) = path
         after_tloc == AfterTloc(c, diff[i], f).value
         before_tloc == BeforeTloc(c, diff[i], f).value
     IN  [before |-> before_tloc, after |-> after_tloc,
          change |-> after_tloc[2] - before_tloc[2]]]

\* is_merge taken from the change set as well: a merge that changes nothing
\* against its first parent is not counted
IsMergeByDiff(c) == Len(Parents(c)) > 1 /\ Diff(c) # << >>

\* self.is_merge = len(self.parents) > 1
is_merge(c) == Len(Parents(c)) > 1

\* CommitTimelineData.__init__ with _calculate_file_changes, for commit c
\* built by worker w while the calls f fail
CommitTimelineData(c, w, f) ==
  LET diff == IF CallDiff \in f THEN << >> ELSE Diff(c)
  IN  [commit |-> c, gen |-> w, parents |-> Parents(c),
       affected_files |->
         SelectSeq([i \in 1 .. Len(diff) |-> FilePath(diff[i])],
                   LAMBDA p : p # << >>),
       files_added |-> PathsOfType(diff, "A"),
       files_modified |-> PathsOfType(diff, "M"),
       files_deleted |-> PathsOfType(diff, "D"),
       tloc_changes |-> TlocChanges(c, diff, f),
       tloc_data |-> calculate_project_tloc_at_commit(c, f),
       branches |-> << >>, visited |-> FALSE,
       is_merge |-> is_merge(c),
       failed |-> f]

\* the record of every commit under every set of failing calls; the worker
\* that builds a record is put in when it is appended.  The table is
\* compared with itself so that TLC works it out in full, once.
Records ==
  LET table ==
        [c \in Commits, f \in FaultSets |-> CommitTimelineData(c, 0, f)]
  IN  IF table = table THEN table ELSE << >>

\* the calls made while the record of commit c is built: the diff, the tree
\* listing, and the content reads of the changed code files and the sample
CallsMade(c) ==
  LET diff == Diff(c)
      code == {i \in 1 .. Len(diff) : is_code_file(FilePath(diff[i]))}
      code_files == SelectSeq(TreePaths(c), is_code_file)
      sample_size == Min(SampleCap, Len(code_files))
  IN  {CallDiff, CallLsTree}
        \cup {CallShow("after", FilePath(diff[i])) :
                i \in {k \in code : diff[k].change_type # "D"}}
        \cup {CallShow("before", FilePath(diff[i])) :
                i \in {k \in code : /\ diff[k].change_type # "A"
                                     /\ Parents(c) # << >>}}
        \cup {CallShow("sample", code_files[i]) : i \in 1 .. sample_size}

CallsMadeAt ==
  LET table == [c \in Commits |-> CallsMade(c)]
  IN  IF table = table THEN table ELSE << >>

\* the failed calls of the records of a batch
FailedIn(batch) ==
  {x \in (1 .. Len(batch)) \X FaultCalls : x[2] \in batch[x[1]].failed}

(***************************************************************************)
(* TimelinePanel.                                                          *)
(***************************************************************************)
\* the values of the limit spin control the runs use
LimitValues == {SpinMin, SpinMax}

\* the statistics label before any batch: "No data loaded"
NoStats == [files |-> 0, total_lines |-> 0, code_lines |-> 0, commits |-> 0]

\* the panel after TimelinePanel.__init__
PanelInit ==
  /\ repo = "none"
  /\ heads = {}
  /\ items = << >>
  /\ selection = -1
  /\ timeline_data = 0
  /\ lists = [l \in ListIds |-> << >>]
  /\ branch_colors = << >>
  /\ stats_text = NoStats
  /\ painted = "empty"
  /\ queue = << >>
  /\ nreq = 0
  /\ pc = [w \in Gens |-> "idle"]
  /\ wsel = [w \in Gens |-> -1]
  /\ wlim = [w \in Gens |-> 0]
  /\ wcommits = [w \in Gens |-> << >>]
  /\ widx = [w \in Gens |-> 0]
  /\ wlist = [w \in Gens |-> 0]
  /\ wnames = [w \in Gens |-> {}]
  /\ wbuilt = [w \in Gens |-> 0]
  /\ wstage = [w \in Gens |-> "none"]
  /\ updateCalls = [w \in Gens |-> 0]
  /\ errorCalls = [w \in Gens |-> 0]
  /\ selected_commit = << >>
  /\ lanes = << >>
  /\ csv_file = << >>
  /\ export_box = ""
  /\ raised_at = {}
  /\ code_out = << >>

\* calculate_file_tloc_at_commit has not been called
NotCalled == [called |-> FALSE, raised |-> FALSE, value |-> ZeroTloc]

\* no record is being built on its own
RecordIdle ==
  /\ rec_commit = 0
  /\ rec_faults = {}
  /\ rec_out = << >>

\* no aggregation is run on its own
TreeIdle ==
  /\ tree_in = Tree(TRUE, << >>, << >>, {})
  /\ tree_out = << >>
  /\ tree_reads = << >>

Init ==
  /\ PanelInit
  /\ code_path = << >>
  /\ file_blob = NoBlob
  /\ file_fails = FALSE
  /\ file_tloc = NotCalled
  /\ RecordIdle
  /\ TreeIdle

\* populate_branch_choice: the entries and the selection it leaves
PopulatedItems(kind, hs) ==
  << "All Branches", "Current (main)" >>
    \o SelectSeq(HeadsSeq(hs), LAMBDA b : b # ActiveBranchName(kind))

\* self.branch_choice.GetStringSelection()
GetStringSelection ==
  IF selection >= 0 /\ selection < Len(items) THEN items[selection + 1]
  ELSE ""

\* refresh_timeline on the main thread, with self.repo set: it starts the
\* worker thread
StartWorker ==
  /\ nreq < MaxRefresh
  /\ nreq' = nreq + 1
  /\ pc' = [pc EXCEPT ![nreq + 1] = "reset"]

\* load_timeline(repo), called when a repository is opened
LoadTimeline(kind) ==
  /\ repo = "none"
  /\ repo' = kind
  /\ heads' = HeadsOf(kind)
  /\ items' = PopulatedItems(kind, HeadsOf(kind))
  /\ selection' = 1
  /\ StartWorker
  /\ UNCHANGED << timeline_data, lists, branch_colors, stats_text,
                  painted, queue, wsel, wlim, wcommits, widx, wlist, wnames,
                  wbuilt, wstage,
                  updateCalls, errorCalls >>
  /\ UNCHANGED fileVars

\* on_refresh: the Refresh button
OnRefresh ==
  /\ repo # "none"
  /\ StartWorker
  /\ UNCHANGED << repo, heads, items, selection, timeline_data, lists,
                  branch_colors, stats_text, painted, queue, wsel, wlim,
                  wcommits, widx, wlist, wnames, wbuilt, wstage, updateCalls,
                  errorCalls >>
  /\ UNCHANGED fileVars

\* on_branch_changed: the user picks entry i of the branch chooser
OnBranchChanged(i) ==
  /\ repo # "none"
  /\ selection' = i
  /\ StartWorker
  /\ UNCHANGED << repo, heads, items, timeline_data, lists,
                  branch_colors, stats_text, painted, queue, wsel, wlim,
                  wcommits, widx, wlist, wnames, wbuilt, wstage, updateCalls,
                  errorCalls >>
  /\ UNCHANGED fileVars

\* a branch other than the current one is deleted in the repository
DeleteBranch(b) ==
  /\ repo = "born"
  /\ b \in heads
  /\ b # ActiveBranchName(repo)
  /\ heads' = heads \ {b}
  /\ UNCHANGED panelVars
  /\ UNCHANGED workerVars
  /\ UNCHANGED << updateCalls, errorCalls >>
  /\ UNCHANGED fileVars

(***************************************************************************)
(* The worker thread of refresh_timeline, statement by statement.          *)
(***************************************************************************)
\* a list object is still in use when a worker other than w iterates it
Held(l, w) == \E v \in Gens \ {w} : pc[v] = "branch" /\ wlist[v] = l

\* self.timeline_data = []: a new list; the list bound before is freed
\* unless a worker still iterates it
WorkerReset(w) ==
  /\ pc[w] = "reset"
  /\ timeline_data' = w
  /\ lists' = [l \in ListIds |->
                IF l = w THEN << >>
                ELSE IF l = timeline_data /\ ~Held(l, w) THEN << >>
                ELSE lists[l]]
  /\ pc' = [pc EXCEPT ![w] = "read"]
  /\ UNCHANGED << repo, heads, items, selection, branch_colors,
                  stats_text, painted, queue, nreq, wsel, wlim, wcommits,
                  widx, wlist, wnames, wbuilt, wstage, updateCalls,
                  errorCalls >>
  /\ UNCHANGED fileVars

\* selection = GetSelection(); limit = GetValue(): the spin control holds
\* whatever the user typed last, n
WorkerRead(w, n) ==
  /\ pc[w] = "read"
  /\ wsel' = [wsel EXCEPT ![w] = selection]
  /\ wlim' = [wlim EXCEPT ![w] = n]
  /\ pc' = [pc EXCEPT ![w] = "walk"]
  /\ UNCHANGED << wcommits, widx, wlist, wnames, wbuilt, wstage, heads,
                  updateCalls,
                  errorCalls >>
  /\ UNCHANGED panelVars
  /\ UNCHANGED fileVars

\* the revision the worker walks for the selection it read
WalkRev(w) ==
  IF wsel[w] = 0 THEN "--all"
  ELSE IF wsel[w] = 1 THEN "HEAD"
  ELSE GetStringSelection

\* wx.CallAfter(f): f is queued for the main thread
CallAfter(f, w) == queue' = Append(queue, << f, w >>)

\* the walk without the worker's exception handler: a failure ends the
\* thread and nothing is handed off
WorkerWalkUncaught(w) ==
  /\ pc[w] = "walk"
  /\ LET r == IterCommits(repo, heads, WalkRev(w), wlim[w])
     IN  IF ~r.ok
           THEN /\ wstage' = [wstage EXCEPT ![w] = "walk failed"]
                /\ pc' = [pc EXCEPT ![w] = "done"]
                /\ UNCHANGED << wcommits, widx, queue >>
           ELSE /\ wcommits' = [wcommits EXCEPT ![w] = r.commits]
                /\ wstage' = [wstage EXCEPT ![w] = "walked"]
                /\ widx' = [widx EXCEPT ![w] = 1]
                /\ pc' = [pc EXCEPT ![w] = IF r.commits = << >> THEN "bind"
                                           ELSE "build"]
                /\ UNCHANGED queue
  /\ wsel' = [wsel EXCEPT ![w] = -1]
  /\ wlim' = [wlim EXCEPT ![w] = 0]
  /\ UNCHANGED << repo, heads, items, selection, timeline_data, lists,
                  branch_colors, stats_text, painted, nreq, wlist, wnames,
                  wbuilt, updateCalls, errorCalls >>
  /\ UNCHANGED fileVars

\* commits = list(self.repo.iter_commits(...)); a failure is handed to
\* _on_timeline_error
WorkerWalk(w) ==
  /\ pc[w] = "walk"
  /\ LET r == IterCommits(repo, heads, WalkRev(w), wlim[w])
     IN  IF ~r.ok
           THEN /\ CallAfter("error", w)
                /\ wstage' = [wstage EXCEPT ![w] = "walk failed"]
                /\ pc' = [pc EXCEPT ![w] = "done"]
                /\ UNCHANGED << wcommits, widx >>
           ELSE /\ wcommits' = [wcommits EXCEPT ![w] = r.commits]
                /\ wstage' = [wstage EXCEPT ![w] = "walked"]
                /\ widx' = [widx EXCEPT ![w] = 1]
                /\ pc' = [pc EXCEPT ![w] = IF r.commits = << >> THEN "bind"
                                           ELSE "build"]
                /\ UNCHANGED queue
  \* selection and limit are not read again
  /\ wsel' = [wsel EXCEPT ![w] = -1]
  /\ wlim' = [wlim EXCEPT ![w] = 0]
  /\ UNCHANGED << repo, heads, items, selection, timeline_data, lists,
                  branch_colors, stats_text, painted, nreq, wlist, wnames,
                  wbuilt,
                  updateCalls, errorCalls >>
  /\ UNCHANGED fileVars

\* the loop with the branch pass inside it: the pass starts after the first
\* record
WorkerBuildThenPass(w, f) ==
  /\ pc[w] = "build"
  /\ lists' = [lists EXCEPT ![timeline_data] =
                 Append(@, [Records[wcommits[w][widx[w]], f]
                              EXCEPT !.gen = w])]
  /\ widx' = [widx EXCEPT ![w] = @ + 1]
  /\ wbuilt' = [wbuilt EXCEPT ![w] = @ + 1]
  /\ pc' = [pc EXCEPT ![w] = "bind"]
  /\ UNCHANGED << repo, heads, items, selection, timeline_data,
                  branch_colors, stats_text, painted, queue, nreq, wsel, wlim,
                  wcommits, wlist, wnames, wstage, updateCalls, errorCalls >>
  /\ UNCHANGED fileVars

\* one turn of: for commit in commits:
\*     self.timeline_data.append(CommitTimelineData(commit, self.repo))
WorkerBuild(w, f) ==
  /\ pc[w] = "build"
  /\ lists' = [lists EXCEPT ![timeline_data] =
                 Append(@, [Records[wcommits[w][widx[w]], f]
                              EXCEPT !.gen = w])]
  /\ widx' = [widx EXCEPT ![w] = @ + 1]
  /\ wbuilt' = [wbuilt EXCEPT ![w] = @ + 1]
  /\ pc' = [pc EXCEPT ![w] = IF widx[w] = Len(wcommits[w]) THEN "bind"
                             ELSE "build"]
  /\ UNCHANGED << repo, heads, items, selection, timeline_data,
                  branch_colors, stats_text, painted, queue, nreq, wsel, wlim,
                  wcommits, wlist, wnames, wstage, updateCalls, errorCalls >>
  /\ UNCHANGED fileVars

\* _calculate_branch_info: branch_names = set(); for data in
\* self.timeline_data binds the list it iterates
WorkerBind(w) ==
  /\ pc[w] = "bind"
  /\ wlist' = [wlist EXCEPT ![w] = timeline_data]
  /\ wnames' = [wnames EXCEPT ![w] = {}]
  /\ widx' = [widx EXCEPT ![w] = 1]
  /\ pc' = [pc EXCEPT ![w] = "branch"]
  /\ UNCHANGED << wsel, wlim, wcommits, wbuilt, wstage, heads, updateCalls,
                  errorCalls >>
  /\ UNCHANGED panelVars
  /\ UNCHANGED fileVars

\* [branch.name for branch in self.repo.heads
\*  if self.repo.is_ancestor(data.commit, branch.commit)]
BranchesContaining(c, hs) ==
  SelectSeq(HeadsSeq(hs), LAMBDA b : is_ancestor(c, Tip(b)))

Range(s) == {s[i] : i \in 1 .. Len(s)}

\* one turn of the loop over the bound list, or its end
WorkerBranch(w) ==
  /\ pc[w] = "branch"
  /\ IF widx[w] <= Len(lists[wlist[w]])
       THEN LET bs == BranchesContaining(lists[wlist[w]][widx[w]].commit,
                                         heads)
            IN  /\ lists' = [lists EXCEPT ![wlist[w]][widx[w]] =
                               [@ EXCEPT !.branches = bs, !.visited = TRUE]]
                /\ wnames' = [wnames EXCEPT ![w] = @ \cup Range(bs)]
                /\ widx' = [widx EXCEPT ![w] = @ + 1]
            /\ UNCHANGED << pc, wstage >>
       ELSE /\ widx' = [widx EXCEPT ![w] = 1]
            /\ pc' = [pc EXCEPT ![w] = IF wnames[w] = {} THEN "post"
                                       ELSE "colors"]
            /\ wstage' = [wstage EXCEPT ![w] = IF wnames[w] = {} THEN "passed"
                                               ELSE @]
            /\ UNCHANGED << lists, wnames >>
  /\ UNCHANGED << repo, heads, items, selection, timeline_data,
                  branch_colors, stats_text, painted, queue, nreq, wsel, wlim,
                  wcommits, wlist, wbuilt, updateCalls, errorCalls >>
  /\ UNCHANGED fileVars

\* one turn of the loop in which an ancestry test raises (the branch's
\* commit cannot be resolved, or git fails): the bare except leaves the
\* record with no branch at all and branch_names as it was
WorkerBranchRaises(w) ==
  /\ pc[w] = "branch"
  /\ widx[w] <= Len(lists[wlist[w]])
  /\ heads # {}
  /\ Cardinality(raised_at) < MaxFaults
  /\ lists' = [lists EXCEPT ![wlist[w]][widx[w]] =
                 [@ EXCEPT !.branches = << >>, !.visited = TRUE]]
  /\ widx' = [widx EXCEPT ![w] = @ + 1]
  /\ raised_at' = raised_at \cup {<< wlist[w], widx[w] >>}
  /\ UNCHANGED << repo, heads, items, selection, timeline_data,
                  branch_colors, stats_text, painted, queue, nreq, pc, wsel,
                  wlim, wcommits, wlist, wnames, wbuilt, wstage, updateCalls,
                  errorCalls >>
  /\ UNCHANGED << file_blob, file_fails, file_tloc, selected_commit, lanes,
                  csv_file, export_box >>
  /\ UNCHANGED pathVars
  /\ UNCHANGED recVars
  /\ UNCHANGED treeVars

\* the colors list of _calculate_branch_info, by index
PaletteSize == 8

\* colors[i] without the cycle, for an index within the palette
ColorIndexNoCycle(i) == i

\* colors[i % len(colors)], as the index into the palette
ColorIndex(i) == i % PaletteSize

\* d[k] = v on a dict held as a function
DictSet(d, k, v) ==
  [x \in DOMAIN d \cup {k} |-> IF x = k THEN v ELSE d[x]]

\* one turn of: for i, branch in enumerate(sorted(branch_names)):
\*     self.branch_colors[branch] = colors[i % len(colors)]
WorkerColors(w) ==
  /\ pc[w] = "colors"
  /\ LET names == SortedNames(wnames[w])
     IN  /\ branch_colors' = DictSet(branch_colors, names[widx[w]],
                                     ColorIndex(widx[w] - 1))
         /\ pc' = [pc EXCEPT ![w] = IF widx[w] = Len(names) THEN "post"
                                    ELSE "colors"]
         /\ wstage' = [wstage EXCEPT ![w] = IF widx[w] = Len(names)
                                              THEN "passed" ELSE @]
  /\ widx' = [widx EXCEPT ![w] = @ + 1]
  /\ UNCHANGED << repo, heads, items, selection, timeline_data, lists,
                  stats_text, painted, queue, nreq, wsel, wlim, wcommits,
                  wlist, wnames, wbuilt, updateCalls, errorCalls >>
  /\ UNCHANGED fileVars

\* wx.CallAfter(self._update_timeline_ui)
WorkerPost(w) ==
  /\ pc[w] = "post"
  /\ CallAfter("update", w)
  /\ pc' = [pc EXCEPT ![w] = "done"]
  \* the locals of _calculate_branch_info are gone
  /\ widx' = [widx EXCEPT ![w] = 0]
  /\ wlist' = [wlist EXCEPT ![w] = 0]
  /\ wnames' = [wnames EXCEPT ![w] = {}]
  /\ UNCHANGED << repo, heads, items, selection, timeline_data, lists,
                  branch_colors, stats_text, painted, nreq, wsel, wlim,
                  wcommits, wbuilt, wstage, updateCalls, errorCalls >>
  /\ UNCHANGED fileVars

WorkerStep(w) ==
  \/ WorkerReset(w)
  \/ \E n \in LimitValues : WorkerRead(w, n)
  \/ WorkerWalk(w)
  \/ WorkerBuild(w, NoFault)
  \/ WorkerBind(w)
  \/ WorkerBranch(w)
  \/ WorkerColors(w)
  \/ WorkerPost(w)

(***************************************************************************)
(* The main thread's handlers of the worker's hand-off, and painting.      *)
(***************************************************************************)
\* the statistics label _update_timeline_ui writes
StatsOf(batch) ==
  [files |-> batch[1].tloc_data.file_count,
   total_lines |-> batch[1].tloc_data.total_lines,
   code_lines |-> batch[1].tloc_data.code_lines,
   commits |-> Len(batch)]

\* _update_timeline_ui, called by the main loop
UpdateTimelineUi ==
  /\ queue # << >>
  /\ Head(queue)[1] = "update"
  /\ queue' = Tail(queue)
  /\ stats_text' = IF lists[timeline_data] # << >>
                     THEN StatsOf(lists[timeline_data])
                   ELSE stats_text
  /\ updateCalls' = [updateCalls EXCEPT ![Head(queue)[2]] = @ + 1]
  /\ UNCHANGED << repo, heads, items, selection, timeline_data, lists,
                  branch_colors, painted, nreq, errorCalls >>
  /\ UNCHANGED workerVars
  /\ UNCHANGED fileVars

\* an error handler that asks for the refresh again
OnTimelineErrorRetry ==
  /\ queue # << >>
  /\ Head(queue)[1] = "error"
  /\ queue' = Tail(queue)
  /\ errorCalls' = [errorCalls EXCEPT ![Head(queue)[2]] = @ + 1]
  /\ IF nreq < MaxRefresh THEN StartWorker ELSE UNCHANGED << nreq, pc >>
  /\ UNCHANGED << repo, heads, items, selection, timeline_data, lists,
                  branch_colors, stats_text, painted, updateCalls, wsel, wlim,
                  wcommits, widx, wlist, wnames, wbuilt, wstage >>
  /\ UNCHANGED fileVars

\* _on_timeline_error, called by the main loop
OnTimelineError ==
  /\ queue # << >>
  /\ Head(queue)[1] = "error"
  /\ queue' = Tail(queue)
  /\ errorCalls' = [errorCalls EXCEPT ![Head(queue)[2]] = @ + 1]
  /\ UNCHANGED << repo, heads, items, selection, timeline_data, lists,
                  branch_colors, stats_text, painted, nreq, updateCalls >>
  /\ UNCHANGED workerVars
  /\ UNCHANGED fileVars

\* a batch is complete when it is the walk of one request, record by
\* record, and the branch pass has visited every record
IsCompleteBatch(batch) ==
  \E w \in Gens :
    /\ pc[w] \notin {"idle", "reset", "read", "walk"}
    /\ Len(batch) = Len(wcommits[w])
    /\ \A i \in 1 .. Len(batch) :
         /\ batch[i].commit = wcommits[w][i]
         /\ batch[i].gen = w
         /\ batch[i].visited

\* what a main-thread handler finds in self.timeline_data
BatchKind(batch) ==
  IF batch = << >> THEN "empty"
  ELSE IF IsCompleteBatch(batch) THEN "complete"
  ELSE "partial"

\* the branch columns a drawing has room for
max_branches == 8

\* the columns on_timeline_paint gives to branches: column j, counted from
\* 0, goes to the j-th key of the color map in sorted order, in that
\* key's color, and the keys after the last column get none
LanesOf(colors) ==
  [j \in 1 .. Min(Cardinality(DOMAIN colors), max_branches) |->
     LET branch == SortedNames(DOMAIN colors)[j]
     IN  [branch |-> branch, color |-> colors[branch]]]

\* on_timeline_paint: it draws the records of self.timeline_data, each
\* over the branch columns, or returns at once when there are none and
\* leaves the window to the default handler, which clears it
OnTimelinePaint ==
  LET batch == lists[timeline_data]
      drawn == IF batch = << >> THEN << >> ELSE LanesOf(branch_colors)
  IN  /\ painted # BatchKind(batch) \/ lanes # drawn
      /\ painted' = BatchKind(batch)
      /\ lanes' = drawn
      /\ UNCHANGED << repo, heads, items, selection, timeline_data, lists,
                      branch_colors, stats_text, queue, nreq, updateCalls,
                      errorCalls >>
      /\ UNCHANGED workerVars
      /\ UNCHANGED << file_blob, file_fails, file_tloc >>
      /\ UNCHANGED << selected_commit, csv_file, export_box, raised_at >>
      /\ UNCHANGED recVars
      /\ UNCHANGED treeVars
      /\ UNCHANGED pathVars

Next ==
  \/ \E kind \in RepoKinds : LoadTimeline(kind)
  \/ OnRefresh
  \/ \E i \in 0 .. Len(items) - 1 : OnBranchChanged(i)
  \/ \E b \in BranchNames : DeleteBranch(b)
  \/ \E w \in Gens : WorkerStep(w)
  \/ UpdateTimelineUi
  \/ OnTimelineError
  \/ OnTimelinePaint

Spec == Init /\ [][Next]_vars

\* no worker is running and no hand-off is waiting
Quiet == queue = << >> /\ \A w \in Gens : pc[w] \in {"idle", "done"}

\* the worker thread, where the reads of a record may fail
FaultyWorkerStep(w) ==
  \/ WorkerReset(w)
  \/ \E n \in LimitValues : WorkerRead(w, n)
  \/ WorkerWalk(w)
  \/ \E f \in FaultSets :
       /\ pc[w] = "build"
       /\ f \subseteq CallsMadeAt[wcommits[w][widx[w]]]
       /\ Cardinality(f) + Cardinality(FailedIn(lists[timeline_data]))
            <= MaxFaults
       /\ WorkerBuild(w, f)
  \/ WorkerBind(w)
  \/ WorkerBranch(w)
  \/ WorkerColors(w)
  \/ WorkerPost(w)

\* the user waits for a refresh to end before asking for the next one
SeqNext ==
  \/ \E kind \in RepoKinds : LoadTimeline(kind)
  \/ Quiet /\ OnRefresh
  \/ \E i \in 0 .. Len(items) - 1 : Quiet /\ OnBranchChanged(i)
  \/ \E b \in BranchNames : DeleteBranch(b)
  \/ \E w \in Gens : FaultyWorkerStep(w)
  \/ UpdateTimelineUi
  \/ OnTimelineError

SeqSpec == Init /\ [][SeqNext]_vars

\* the repositories the user loads, one of them with many branches
WideRepoKinds == RepoKinds \cup {"wide"}

\* refreshes that do not overlap and whose calls do not fail, also on the
\* repository with many branches
WideNext ==
  \/ \E kind \in WideRepoKinds : LoadTimeline(kind)
  \/ Quiet /\ OnRefresh
  \/ \E i \in 0 .. Len(items) - 1 : Quiet /\ OnBranchChanged(i)
  \/ \E b \in BranchNames : DeleteBranch(b)
  \/ \E w \in Gens : WorkerStep(w)
  \/ UpdateTimelineUi
  \/ OnTimelineError

WideSpec == Init /\ [][WideNext]_vars

\* refreshes that do not overlap and whose calls do not fail, with the
\* window repainted at any time
PaintNext ==
  \/ \E kind \in WideRepoKinds : LoadTimeline(kind)
  \/ Quiet /\ OnRefresh
  \/ \E i \in 0 .. Len(items) - 1 : Quiet /\ OnBranchChanged(i)
  \/ \E b \in BranchNames : DeleteBranch(b)
  \/ \E w \in Gens : WorkerStep(w)
  \/ UpdateTimelineUi
  \/ OnTimelineError
  \/ OnTimelinePaint

PaintSpec == Init /\ [][PaintNext]_vars

\* refreshes that do not overlap, on a repository whose branches stay as
\* they are, where an ancestry test of the branch pass may raise
BranchNext ==
  \/ \E kind \in RepoKinds : LoadTimeline(kind)
  \/ Quiet /\ OnRefresh
  \/ \E i \in 0 .. Len(items) - 1 : Quiet /\ OnBranchChanged(i)
  \/ \E w \in Gens : WorkerStep(w)
  \/ \E w \in Gens : WorkerBranchRaises(w)
  \/ UpdateTimelineUi
  \/ OnTimelineError

BranchSpec == Init /\ [][BranchNext]_vars

\* on_timeline_click on row i of the drawing: the record of that row of
\* self.timeline_data becomes self.selected_commit; a click below the last
\* row, or on an empty list, changes nothing
OnTimelineClick(i) ==
  /\ lists[timeline_data] # << >>
  /\ i < Len(lists[timeline_data])
  /\ selected_commit' = << timeline_data, i + 1 >>
  /\ UNCHANGED << lanes, csv_file, export_box, raised_at >>
  /\ UNCHANGED << file_blob, file_fails, file_tloc >>
  /\ UNCHANGED recVars
  /\ UNCHANGED treeVars
  /\ UNCHANGED pathVars
  /\ UNCHANGED panelVars
  /\ UNCHANGED workerVars
  /\ UNCHANGED << heads, updateCalls, errorCalls >>

\* the rows a click can fall on
Rows == 0 .. Cardinality(Commits) - 1

\* refreshes that do not overlap, and clicks on the drawing at any time
ClickNext ==
  \/ \E kind \in RepoKinds : LoadTimeline(kind)
  \/ Quiet /\ OnRefresh
  \/ \E i \in 0 .. Len(items) - 1 : Quiet /\ OnBranchChanged(i)
  \/ \E w \in Gens : WorkerStep(w)
  \/ UpdateTimelineUi
  \/ OnTimelineError
  \/ \E i \in Rows : OnTimelineClick(i)

ClickSpec == Init /\ [][ClickNext]_vars

\* text is a sequence of characters; a word stands for its characters
Digits == << "0", "1", "2", "3", "4", "5", "6", "7", "8", "9" >>

HexDigits == Digits \o << "a", "b", "c", "d", "e", "f" >>

\* str(n) of a count, as csv.writer writes a number
RECURSIVE Str(_)
Str(n) ==
  IF n < 10 THEN << Digits[n + 1] >>
  ELSE Str(n \div 10) \o << Digits[(n % 10) + 1] >>

\* commit.hexsha: 40 hexadecimal digits
hexsha(c) == [i \in 1 .. 40 |-> HexDigits[((c * i * i + i) % 16) + 1]]

\* self.short_sha = commit.hexsha[:8]
short_sha(c) == SubSeq(hexsha(c), 1, 8)

\* self.message = commit.message.strip(): a subject, and for some commits
\* a body after an empty line
message(c) ==
  IF c = 1 THEN << "init" >>
  ELSE IF c = 2 THEN << "fix", "\n", "\n", "body", "\n", "more" >>
  ELSE IF c = 4 THEN << "Merge", " ", "dev", "\n", "\n", "notes" >>
  ELSE << "work", " ", "on", " " >> \o Str(c)

\* commit.author.name and commit.author.email
author(c) == IF c % 2 = 1 THEN << "Ann" >> ELSE << "Bob", " ", "Li" >>

email(c) == IF c % 2 = 1 THEN << "ann@x.org" >> ELSE << "bob@x.org" >>

\* self.date.isoformat()
isoformat(c) == << "2024-01-0" >> \o Str(c) \o << "T12:00:00" >>

\* message.replace('\n', ' ')
ReplaceNewlines(text) ==
  [i \in 1 .. Len(text) |-> IF text[i] = "\n" THEN " " ELSE text[i]]

\* ', '.join(names)
RECURSIVE Join(_)
Join(names) ==
  IF names = << >> THEN << >>
  ELSE IF Len(names) = 1 THEN << names[1] >>
  ELSE << names[1], ", " >> \o Join(Tail(names))

\* the header row export_timeline_data writes first
CsvHeader ==
  << << "SHA" >>, << "Short SHA" >>, << "Author" >>, << "Email" >>,
     << "Date" >>, << "Message" >>, << "Branches" >>,
     << "Files Changed" >>, << "Files Added" >>, << "Files Modified" >>,
     << "Files Deleted" >>, << "Total Files" >>, << "Total Lines" >>,
     << "Code Lines" >>, << "Blank Lines" >> >>

\* a row of the file for a record, with the given text in the message
\* column; sha, author, email and date are the fields the constructor
\* took from the commit
CsvRowOf(commit_data, message_text) ==
  LET c == commit_data.commit
      tloc == commit_data.tloc_data
  IN  << hexsha(c), short_sha(c), author(c), email(c), isoformat(c),
         message_text,
         Join(commit_data.branches),
         Str(Len(commit_data.affected_files)),
         Str(Len(commit_data.files_added)),
         Str(Len(commit_data.files_modified)),
         Str(Len(commit_data.files_deleted)),
         Str(tloc.file_count), Str(tloc.total_lines),
         Str(tloc.code_lines), Str(tloc.blank_lines) >>

\* the row with the message as it is, newlines kept
CsvRowRawMessage(commit_data) ==
  CsvRowOf(commit_data, message(commit_data.commit))

\* the row export_timeline_data writes for a record
CsvRow(commit_data) ==
  CsvRowOf(commit_data, ReplaceNewlines(message(commit_data.commit)))

\* export_timeline_data: the rows of the file it writes for a batch
export_timeline_data(batch) ==
  << CsvHeader >> \o [i \in 1 .. Len(batch) |-> CsvRow(batch[i])]

\* on_export, with the user's answer to the file dialog and whether the
\* file can be opened for writing: on an empty batch it shows "No Data"
\* and returns; a cancelled dialog changes nothing; otherwise
\* export_timeline_data writes the file, or reports that it could not
OnExport(ok, opens) ==
  /\ IF lists[timeline_data] = << >>
        THEN /\ export_box' = "No Data"
             /\ UNCHANGED csv_file
      ELSE IF ~ok
        THEN UNCHANGED << csv_file, export_box >>
      ELSE IF ~opens
        THEN /\ export_box' = "Export Error"
             /\ UNCHANGED csv_file
      ELSE /\ csv_file' = << export_timeline_data(lists[timeline_data]) >>
           /\ export_box' = "Export Complete"
  /\ UNCHANGED << selected_commit, lanes, raised_at >>
  /\ UNCHANGED << file_blob, file_fails, file_tloc >>
  /\ UNCHANGED recVars
  /\ UNCHANGED treeVars
  /\ UNCHANGED pathVars
  /\ UNCHANGED panelVars
  /\ UNCHANGED workerVars
  /\ UNCHANGED << heads, updateCalls, errorCalls >>

\* refreshes that do not overlap, and exports at any time
ExportNext ==
  \/ \E kind \in RepoKinds : LoadTimeline(kind)
  \/ Quiet /\ OnRefresh
  \/ \E i \in 0 .. Len(items) - 1 : Quiet /\ OnBranchChanged(i)
  \/ \E w \in Gens : WorkerStep(w)
  \/ UpdateTimelineUi
  \/ OnTimelineError
  \/ \E ok, opens \in BOOLEAN : OnExport(ok, opens)

ExportSpec == Init /\ [][ExportNext]_vars

\* populate_branch_choice while HEAD is detached, as if every branch were
\* then listed after "All Branches"
PopulatedDetachedListing(hs) == << "All Branches" >> \o HeadsSeq(hs)

\* populate_branch_choice while HEAD is detached: repo.active_branch
\* raises TypeError, so after "All Branches" the first try selects entry
\* 0, and with a branch to list the hasattr test of the loop raises the
\* TypeError again (hasattr lets only AttributeError pass for False):
\* no branch is ever appended
PopulatedDetached(hs) == << "All Branches" >>

\* CommitsPanel.on_checkout_commit on the root commit: HEAD is
\* detached and GitPanel.load_repository calls load_timeline again, whose
\* populate_branch_choice ends in the TypeError when there is a branch,
\* so that refresh_timeline is not reached; the caller reports the error
OnCheckoutCommit ==
  /\ repo \in {"born", "detached"}
  /\ repo' = "detached"
  /\ items' = PopulatedDetached(heads)
  /\ selection' = 0
  /\ IF heads = {} THEN StartWorker ELSE UNCHANGED << nreq, pc >>
  /\ UNCHANGED << heads, timeline_data, lists, branch_colors, stats_text,
                  painted, queue, wsel, wlim, wcommits, widx, wlist, wnames,
                  wbuilt, wstage, updateCalls, errorCalls >>
  /\ UNCHANGED fileVars

\* the root commit is checked out in the repository by another program:
\* HEAD is detached and the panel is not told
DetachHead ==
  /\ repo = "born"
  /\ repo' = "detached"
  /\ UNCHANGED << heads, items, selection, timeline_data, lists,
                  branch_colors, stats_text, painted, queue, nreq,
                  updateCalls, errorCalls >>
  /\ UNCHANGED workerVars
  /\ UNCHANGED fileVars

\* refreshes that do not overlap, on a repository whose branches stay as
\* they are and whose HEAD is detached, by the user or behind the panel's
\* back, between two refreshes
ChooserNext ==
  \/ \E kind \in RepoKinds : LoadTimeline(kind)
  \/ Quiet /\ OnRefresh
  \/ \E i \in 0 .. Len(items) - 1 : Quiet /\ OnBranchChanged(i)
  \/ Quiet /\ OnCheckoutCommit
  \/ Quiet /\ DetachHead
  \/ \E w \in Gens : WorkerStep(w)
  \/ UpdateTimelineUi
  \/ OnTimelineError

ChooserSpec == Init /\ [][ChooserNext]_vars

(***************************************************************************)
(* calculate_file_tloc_at_commit on its own, over every short file.        *)
(***************************************************************************)
\* the longest file content, in characters
MaxLen == 4

FileChars == {"x", " ", "\n"}

FileTexts == UNION {[1 .. n -> FileChars] : n \in 0 .. MaxLen}

\* a path of a commit: absent from the tree, or a blob of some content;
\* the show command may fail for other reasons
FileInit ==
  /\ PanelInit
  /\ code_path = << >>
  /\ file_blob \in {NoBlob} \cup {Blob(t) : t \in FileTexts}
  /\ file_fails \in BOOLEAN
  /\ file_tloc = NotCalled
  /\ RecordIdle
  /\ TreeIdle

\* one call of TlocCalculator.calculate_file_tloc_at_commit
CalculateFileTloc ==
  /\ ~file_tloc.called
  /\ LET r == calculate_file_tloc_at_commit(git_show(file_blob, file_fails))
     IN  file_tloc' = [called |-> TRUE, raised |-> r.raised,
                       value |-> r.value]
  /\ UNCHANGED << file_blob, file_fails >>
  /\ UNCHANGED recVars
  /\ UNCHANGED treeVars
  /\ UNCHANGED panelVars
  /\ UNCHANGED uiVars
  /\ UNCHANGED pathVars
  /\ UNCHANGED workerVars
  /\ UNCHANGED << heads, updateCalls, errorCalls >>

FileSpec == FileInit /\ [][CalculateFileTloc]_vars

(***************************************************************************)
(* is_code_file on its own, over generated paths, while the file the path  *)
(* names comes, goes and changes.                                          *)
(***************************************************************************)
\* the calls of is_code_file made on one path
MaxCalls == 2

PathDirs == {<< >>, << "s", "r", "c", "/" >>, << "v", ".", "1", "/" >>}

PathStems ==
  {<< "m", "a", "k", "e", "f", "i", "l", "e" >>,
   << "M", "a", "k", "e", "f", "i", "l", "e" >>,
   << "p", "a", "c", "k", "a", "g", "e" >>,
   << "g", "o" >>, << "a" >>, << >>}

PathSuffixes ==
  {<< >>, << ".", "p", "y" >>, << ".", "P", "Y" >>, << ".", "t", "x", "t" >>,
   << ".", "m", "i", "n", ".", "t", "x", "t" >>, << ".", "m", "o", "d" >>,
   << ".", "t", "a", "r", ".", "p", "y" >>, << "." >>}

GenPaths ==
  {d \o st \o su : d \in PathDirs, st \in PathStems, su \in PathSuffixes}

\* what the path names in the commit: nothing, an empty file, or a line
PathBlobs == {NoBlob, Blob(<< >>), Blob(Text(<< LineX >>))}

PathInit ==
  /\ PanelInit
  /\ code_path \in GenPaths
  /\ file_blob \in PathBlobs
  /\ file_fails = FALSE
  /\ file_tloc = NotCalled
  /\ RecordIdle
  /\ TreeIdle

\* one call of TlocCalculator.is_code_file
IsCodeFile ==
  /\ Len(code_out) < MaxCalls
  /\ code_out' = Append(code_out, is_code_file(code_path))
  /\ UNCHANGED << code_path, file_blob, file_fails, file_tloc >>
  /\ UNCHANGED recVars
  /\ UNCHANGED treeVars
  /\ UNCHANGED uiVars
  /\ UNCHANGED panelVars
  /\ UNCHANGED workerVars
  /\ UNCHANGED << heads, updateCalls, errorCalls >>

\* the file of the path is created, removed or rewritten
ChangeFile(blob) ==
  /\ blob # file_blob
  /\ file_blob' = blob
  /\ UNCHANGED << code_path, code_out, file_fails, file_tloc >>
  /\ UNCHANGED recVars
  /\ UNCHANGED treeVars
  /\ UNCHANGED uiVars
  /\ UNCHANGED panelVars
  /\ UNCHANGED workerVars
  /\ UNCHANGED << heads, updateCalls, errorCalls >>

PathNext ==
  \/ IsCodeFile
  \/ \E blob \in PathBlobs : ChangeFile(blob)

PathSpec == PathInit /\ [][PathNext]_vars

(***************************************************************************)
(* CommitTimelineData on its own: the record of each commit of the         *)
(* history, under each set of failing calls.                               *)
(***************************************************************************)
RecordInit ==
  /\ PanelInit
  /\ code_path = << >>
  /\ file_blob = NoBlob
  /\ file_fails = FALSE
  /\ file_tloc = NotCalled
  /\ rec_commit \in Commits
  /\ rec_faults \in FaultSets
  /\ rec_out = << >>
  /\ TreeIdle

\* CommitTimelineData(repo, commit): rec_out holds the record once built
BuildRecord ==
  /\ rec_out = << >>
  /\ rec_out' = << Records[rec_commit, rec_faults] >>
  /\ UNCHANGED << rec_commit, rec_faults >>
  /\ UNCHANGED << file_blob, file_fails, file_tloc >>
  /\ UNCHANGED treeVars
  /\ UNCHANGED uiVars
  /\ UNCHANGED panelVars
  /\ UNCHANGED pathVars
  /\ UNCHANGED workerVars
  /\ UNCHANGED << heads, updateCalls, errorCalls >>

RecordSpec == RecordInit /\ [][BuildRecord]_vars

(***************************************************************************)
(* calculate_project_tloc_at_commit on its own, over generated trees.      *)
(***************************************************************************)
\* the most paths a generated tree lists
MaxFiles == 12

\* the k-th path of a generated tree: a Python file, or a text file
GenPath(k, code) ==
  << LowerCase[k] >>
    \o (IF code THEN << ".", "p", "y" >> ELSE << ".", "t", "x", "t" >>)

\* which positions of the listing hold text files
TextPositions == {{}, {1}, {2, 11}}

\* the code lines of the long file of a tree
LongFile == 55

\* how the files are filled: whitespace only; k mod 3 lines of code and a
\* blank line in file k; code in the files past the tenth only; or one
\* long file followed by files of one line
Fillings == {"blank", "ramp", "late", "long"}

\* which calls fail: none, every content read, the read of every other
\* file, or the tree listing
Failures == {"none", "all", "odd", "ls_tree"}

RECURSIVE Copies(_, _)
Copies(line, n) == IF n = 0 THEN << >> ELSE << line >> \o Copies(line, n - 1)

\* the content of the k-th file
GenText(k, filling) ==
  IF filling = "blank" THEN Text(<< LineSpaces >>)
  ELSE IF filling = "ramp" THEN Text(Copies(LineX, k % 3) \o << LineEmpty >>)
  ELSE IF filling = "long"
    THEN Text(Copies(LineX, IF k = 1 THEN LongFile ELSE 1))
  ELSE IF k > SampleCap THEN Text(<< LineX >>)
  ELSE << >>

GenTree(n, texts, filling, failure) ==
  LET path(k) == GenPath(k, k \notin texts)
  IN  Tree(failure # "ls_tree",
           [k \in 1 .. n |-> path(k)],
           [p \in {path(k) : k \in 1 .. n} |->
              Blob(GenText(CHOOSE k \in 1 .. n : path(k) = p, filling))],
           IF failure = "all" THEN {path(k) : k \in 1 .. n}
           ELSE IF failure = "odd"
             THEN {path(k) : k \in {j \in 1 .. n : j % 2 = 1}}
           ELSE {})

TreeInit ==
  /\ PanelInit
  /\ code_path = << >>
  /\ file_blob = NoBlob
  /\ file_fails = FALSE
  /\ file_tloc = NotCalled
  /\ RecordIdle
  /\ tree_in \in {GenTree(n, texts, filling, failure) :
                     n \in 0 .. MaxFiles, texts \in TextPositions,
                     filling \in Fillings, failure \in Failures}
  /\ tree_out = << >>
  /\ tree_reads = << >>

\* one call of TlocCalculator.calculate_project_tloc_at_commit
CalculateProjectTloc ==
  /\ tree_out = << >>
  /\ tree_out' = << ProjectTotals(tree_in) >>
  /\ tree_reads' = [i \in 1 .. Len(SampleReads(tree_in)) |->
                      SampleReads(tree_in)[i].path]
  /\ UNCHANGED tree_in
  /\ UNCHANGED << file_blob, file_fails, file_tloc >>
  /\ UNCHANGED recVars
  /\ UNCHANGED uiVars
  /\ UNCHANGED panelVars
  /\ UNCHANGED pathVars
  /\ UNCHANGED workerVars
  /\ UNCHANGED << heads, updateCalls, errorCalls >>

TreeSpec == TreeInit /\ [][CalculateProjectTloc]_vars

\* the refreshes and their hand-offs, with nothing painted
RefreshNext ==
  \/ \E kind \in RepoKinds : LoadTimeline(kind)
  \/ OnRefresh
  \/ \E i \in 0 .. Len(items) - 1 : OnBranchChanged(i)
  \/ \E b \in BranchNames : DeleteBranch(b)
  \/ \E w \in Gens : WorkerStep(w)
  \/ UpdateTimelineUi
  \/ OnTimelineError

\* the refresh worker and the main loop both get to run
FairSpec ==
  /\ Init /\ [][RefreshNext]_vars
  /\ \A w \in Gens : WF_vars(WorkerStep(w))
  /\ WF_vars(UpdateTimelineUi)
  /\ WF_vars(OnTimelineError)

(***************************************************************************)
(* Properties of a refresh.                                                *)
(***************************************************************************)
\* the commits of the records of a batch, in order
CommitsOf(batch) == [i \in 1 .. Len(batch) |-> batch[i].commit]

\* hand-offs f of worker w: waiting in the main loop's queue, or called
Queued(f, w) == Cardinality({i \in 1 .. Len(queue) : queue[i] = << f, w >>})

HandOffs(w) ==
  Queued("update", w) + Queued("error", w) + updateCalls[w] + errorCalls[w]

\* what the panel shows: the records it paints and the statistics label
Display == << lists[timeline_data], stats_text >>

\* this step is one of request g's worker, or the call of its hand-off
ActsFor(g) ==
  \/ pc'[g] # pc[g]
  \/ widx'[g] # widx[g]
  \/ updateCalls'[g] # updateCalls[g]
  \/ errorCalls'[g] # errorCalls[g]

\* C1: generation discard.  For requests G1 then G2, once _update_timeline_ui
\* has run for G2, no step of G1's worker and no hand-off of G1 changes what
\* the panel shows (its records, its statistics label).
C1_GenerationDiscard ==
  [][\A g1, g2 \in Gens :
       (g1 < g2 /\ updateCalls[g2] = 1 /\ ActsFor(g1))
         => Display' = Display]_vars

\* C2: a main-thread handler that reads timeline_data finds it empty or
\* holding a complete batch with every record's branches filled in, never a
\* batch a worker is still appending to or has not run the branch pass on.
C2_HandlerSeesWholeBatch == painted # "partial"

\* C3: at the step where a worker hands off with _update_timeline_ui, the
\* records of timeline_data are those of the commits its own walk returned,
\* in the walk's order, each once (so no more than the limit it walked with).
C3_BatchIsTheWalk ==
  [][\A w \in Gens :
       (pc[w] = "post" /\ pc'[w] = "done")
         => CommitsOf(lists[timeline_data]) = wcommits[w]]_vars

\* C4: the branch pass of a refresh starts only when the worker has built
\* and appended a record for every commit of its walk, and
\* _update_timeline_ui is scheduled only when the branch pass has returned.
C4_PassAfterBuildThenUpdate ==
  \A w \in Gens :
    /\ pc[w] \in {"bind", "branch", "colors", "post"}
         => wbuilt[w] = Len(wcommits[w])
    /\ Queued("update", w) + updateCalls[w] > 0
         => /\ wstage[w] = "passed"
            /\ wbuilt[w] = Len(wcommits[w])

\* a refresh that built two records has handed off its update
C4_Witness ==
  \E w \in Gens : Queued("update", w) = 1 /\ wbuilt[w] = 2

\* C5: a refresh request returns on the main thread without touching the
\* data (the worker computes it), and its worker hands off exactly once:
\* never two hand-offs, one when the worker has ended, and in the end one
\* call of _update_timeline_ui or of _on_timeline_error, not both.
C5_OneHandOff ==
  /\ [][nreq' # nreq
          => UNCHANGED << timeline_data, lists, branch_colors,
                          stats_text >>]_vars
  /\ [](\A w \in Gens :
          /\ HandOffs(w) <= 1
          /\ pc[w] = "done" => HandOffs(w) = 1)
  /\ \A w \in Gens :
       pc[w] # "idle" ~> updateCalls[w] + errorCalls[w] = 1

\* one request ended in _update_timeline_ui, another in _on_timeline_error
C5_Witness ==
  \E v, w \in Gens : updateCalls[v] = 1 /\ errorCalls[w] = 1

\* C6: when the walk of a refresh fails, the worker ends with no record
\* built, the failure is handed to _on_timeline_error once,
\* _update_timeline_ui is not scheduled for that refresh, and handling the
\* failure starts no new refresh.
C6_WalkFailure ==
  /\ [](\A w \in Gens :
          wstage[w] = "walk failed"
            => /\ pc[w] = "done"
               /\ wbuilt[w] = 0
               /\ Queued("error", w) + errorCalls[w] = 1
               /\ Queued("update", w) + updateCalls[w] = 0)
  /\ [][errorCalls' # errorCalls => nreq' = nreq /\ pc' = pc]_vars

\* a walk failed and _on_timeline_error has been called for it
C6_Witness ==
  \E w \in Gens : wstage[w] = "walk failed" /\ errorCalls[w] = 1

\* C7: a refresh whose walk fails leaves timeline_data as it was before:
\* when the refresh before it ended with its batch in timeline_data and no
\* refresh overlaps another, timeline_data still lists that batch's commits.
C7_FailedRefreshKeepsBatch ==
  \A w \in Gens \ {1} :
    (wstage[w] = "walk failed" /\ wstage[w - 1] = "passed")
      => CommitsOf(lists[timeline_data]) = wcommits[w - 1]

\* the record of r's commit when no call fails
Clean(r) == Records[r.commit, NoFault]

\* the counts of a file of a record, where the read at the site failed
CountsUnder(r, site, path, counts) ==
  IF CallShow(site, path) \in r.failed THEN ZeroTloc ELSE counts

\* C8: a failing content read, diff or tree listing does not abort the
\* batch.  A file whose read fails gets the counts (0,0,0), the other changed
\* files of the commit keep their entries and counts, a failed diff or tree
\* listing leaves the rest of the record as it is without the failure, no
\* error is handed off, and the batch has one record for every commit of
\* the walk.
C8_LocalFailureKeepsBatch ==
  /\ \A i \in 1 .. Len(lists[timeline_data]) :
       LET r == lists[timeline_data][i]
           clean == Clean(r)
       IN  /\ CallDiff \notin r.failed
                => /\ r.affected_files = clean.affected_files
                   /\ DOMAIN r.tloc_changes = DOMAIN clean.tloc_changes
                   /\ \A path \in DOMAIN r.tloc_changes :
                        /\ r.tloc_changes[path].after =
                             CountsUnder(r, "after", path,
                                         clean.tloc_changes[path].after)
                        /\ r.tloc_changes[path].before =
                             CountsUnder(r, "before", path,
                                         clean.tloc_changes[path].before)
           /\ CallDiff \in r.failed
                => /\ r.affected_files = << >>
                   /\ r.tloc_data =
                        Records[r.commit, r.failed \ {CallDiff}].tloc_data
           /\ CallLsTree \in r.failed
                => /\ r.tloc_data = ZeroTotals
                   /\ r.tloc_changes =
                        Records[r.commit, r.failed \ {CallLsTree}].tloc_changes
           /\ CallLsTree \notin r.failed
                => r.tloc_data.file_count = clean.tloc_data.file_count
  /\ \A w \in Gens :
       /\ wstage[w] # "walk failed"
            => Queued("error", w) + errorCalls[w] = 0
       /\ pc[w] \in {"bind", "post"}
            => /\ wbuilt[w] = Len(wcommits[w])
               /\ CommitsOf(lists[timeline_data]) = wcommits[w]

\* a batch of two records is handed off; the read of a.py failed in the
\* root commit, whose Makefile still has its counts
C8_Witness ==
  /\ Len(lists[timeline_data]) = 2
  /\ Queued("update", timeline_data) = 1
  /\ LET r == lists[timeline_data][2]
     IN  /\ r.failed = {CallShow("after", PathA)}
         /\ r.tloc_changes[PathA].after = ZeroTloc
         /\ r.tloc_changes[PathMakefile].after = << 2, 2, 0 >>

\* C9: calculate_file_tloc_at_commit for a path that is not in the commit's
\* tree returns (0,0,0) and does not raise.
C9_AbsentFileIsZero ==
  (file_tloc.called /\ ~file_blob.exists)
    => ~file_tloc.raised /\ file_tloc.value = ZeroTloc

\* the call was made for a path absent from the tree
C9_Witness == file_tloc.called /\ ~file_blob.exists /\ ~file_fails

\* C10: for a file that exists at the commit and is read, the counts
\* (total, code, blank) are not negative, total = code + blank, total is the
\* number of lines of the file and blank the number of its lines that are
\* empty or hold only whitespace.
C10_ExactFileCounts ==
  (file_tloc.called /\ file_blob.exists /\ ~file_fails)
    => LET total == file_tloc.value[1]
           code == file_tloc.value[2]
           blank == file_tloc.value[3]
           lines == splitlines(file_blob.text)
       IN  /\ ~file_tloc.raised
           /\ total >= 0 /\ code >= 0 /\ blank >= 0
           /\ total = code + blank
           /\ total = Len(lines)
           /\ blank = Cardinality({i \in 1 .. Len(lines) :
                                     strip(lines[i]) = << >>})

\* the count of the lines of a path in a tree: (0,0,0) when it is absent
ExactAt(c, path) ==
  IF BlobAt(c, path).exists THEN LineCounts(BlobAt(c, path).text)
  ELSE ZeroTloc

\* C11: when no call fails, every changed code file of a commit has an
\* entry with change = after.code - before.code, where before is (0,0,0)
\* for an added file or a commit without parent and else the exact count at
\* the first parent, and after is (0,0,0) for a deleted file and else the
\* exact count at the commit.
C11_NetDeltaOfExactCounts ==
  (rec_out # << >> /\ rec_faults = {})
    => LET r == rec_out[1]
           diff == Diff(rec_commit)
       IN  \A i \in 1 .. Len(diff) :
             is_code_file(FilePath(diff[i]))
               => LET path == FilePath(diff[i])
                      type == diff[i].change_type
                      before ==
                        IF type = "A" \/ Parents(rec_commit) = << >>
                          THEN ZeroTloc
                        ELSE ExactAt(Parents(rec_commit)[1], path)
                      after ==
                        IF type = "D" THEN ZeroTloc
                        ELSE ExactAt(rec_commit, path)
                  IN  /\ path \in DOMAIN r.tloc_changes
                      /\ r.tloc_changes[path].before = before
                      /\ r.tloc_changes[path].after = after
                      /\ r.tloc_changes[path].change = after[2] - before[2]

\* C12: the record of a commit without parent has its change set taken
\* against the empty tree: every path of its tree is a changed file, each
\* is in files_added, none in files_modified or files_deleted, and every
\* before count is (0,0,0).
C12_RootCommitAddsAll ==
  (rec_out # << >> /\ Parents(rec_commit) = << >>)
    => LET r == rec_out[1]
       IN  /\ r.files_added = r.affected_files
           /\ r.files_modified = << >>
           /\ r.files_deleted = << >>
           /\ CallDiff \notin rec_faults
                 => r.affected_files = TreePaths(rec_commit)
           /\ \A path \in DOMAIN r.tloc_changes :
                 r.tloc_changes[path].before = ZeroTloc

\* the record of the root commit is built from its diff, and a code file
\* of it has an entry
C12_Witness ==
  /\ rec_out # << >>
  /\ Parents(rec_commit) = << >>
  /\ rec_faults = {}
  /\ rec_out[1].files_added = << PathMakefile, PathA >>
  /\ rec_out[1].tloc_changes[PathA].after = << 10, 8, 2 >>

\* how often x occurs in the sequence s
Occurrences(s, x) == Cardinality({i \in 1 .. Len(s) : s[i] = x})

\* C13: every changed path of a commit is in exactly one of files_added,
\* files_modified and files_deleted; a path that only the first parent has
\* is in files_deleted and a path that only the commit has is in
\* files_added, a rename being the two together.
C13_EachChangeInOneList ==
  (rec_out # << >> /\ CallDiff \notin rec_faults)
    => LET r == rec_out[1]
           p == IF Parents(rec_commit) = << >> THEN 0
                ELSE Parents(rec_commit)[1]
           InLists(path) ==
             Occurrences(r.files_added, path)
               + Occurrences(r.files_modified, path)
               + Occurrences(r.files_deleted, path)
       IN  \A k \in 1 .. Len(AllPaths) :
             LET path == AllPaths[k]
                 old == BlobIn(p, path)
                 new == BlobAt(rec_commit, path)
             IN  /\ Occurrences(r.affected_files, path) = 1
                   => InLists(path) = 1
                 /\ (old.exists /\ ~new.exists)
                   => Occurrences(r.files_deleted, path) = 1
                 /\ (~old.exists /\ new.exists)
                   => Occurrences(r.files_added, path) = 1

\* C14: is_merge of a record is true exactly when its commit has more than
\* one parent, also when the change set against the first parent is empty.
C14_MergeIffTwoParents ==
  rec_out # << >>
    => (rec_out[1].is_merge <=> Len(Parents(rec_commit)) > 1)

\* the record of a merge that changes nothing against its first parent
C14_Witness ==
  /\ rec_out # << >>
  /\ Len(rec_out[1].parents) = 2
  /\ rec_faults = {}
  /\ rec_out[1].affected_files = << >>
  /\ rec_out[1].is_merge

\* the positions of the listing that hold code files
CodePositions(files) == {i \in 1 .. Len(files) : is_code_file(files[i])}

\* C15: one call of calculate_project_tloc_at_commit reads the content of
\* at most min(10, file_count) files, and of exactly 10 when the tree has
\* more than 10 code files.
C15_AtMostTenReads ==
  tree_out # << >>
    => LET file_count == tree_out[1].file_count
       IN  /\ Len(tree_reads) <= 10
           /\ Len(tree_reads) <= file_count
           /\ (tree_in.listed
                 /\ Cardinality(CodePositions(tree_in.files)) > 10)
                 => Len(tree_reads) = 10

\* a tree with more than ten code files was aggregated
C15_Witness ==
  /\ tree_out # << >>
  /\ tree_out[1].file_count > 10
  /\ Len(tree_reads) = 10

\* v is num / den rounded to a nearest integer
IsRounded(v, num, den) ==
  /\ 2 * (v * den - num) <= den
  /\ 2 * (num - v * den) <= den

\* C16: when a sampled read counted a code line, code_lines is
\* (sample sum / sample_size) * file_count rounded, total_lines is
\* code_lines * 1.2 rounded and blank_lines is their difference.
C16_EstimateIsRounded ==
  (tree_out # << >> /\ SampleSum(SampleReads(tree_in)) > 0)
    => LET t == tree_out[1]
           sum == SampleSum(SampleReads(tree_in))
       IN  /\ IsRounded(t.code_lines, sum * t.file_count, Len(tree_reads))
           /\ IsRounded(t.total_lines, t.code_lines * 6, 5)
           /\ t.blank_lines = t.total_lines - t.code_lines

\* C17: when the listing fails, or no listed path is a code file, or every
\* sampled read fails or counts no code line, total_lines, code_lines and
\* blank_lines are all 0.
C17_NothingCountedIsZero ==
  LET reads == SampleReads(tree_in)
  IN  (/\ tree_out # << >>
       /\ \/ ~tree_in.listed
          \/ CodePositions(tree_in.files) = {}
          \/ \A i \in 1 .. Len(reads) :
               \/ reads[i].path \in tree_in.fails
               \/ reads[i].result.value[2] = 0)
        => /\ tree_out[1].total_lines = 0
           /\ tree_out[1].code_lines = 0
           /\ tree_out[1].blank_lines = 0

\* a listed tree has code files, files were read and none counted a line
C17_Witness ==
  /\ tree_out # << >>
  /\ tree_in.listed
  /\ tree_out[1].file_count > 10
  /\ Len(tree_reads) > 0
  /\ tree_in.fails = {}
  /\ tree_out[1].total_lines = 0

\* C18: file_count is the number of listed paths that is_code_file
\* accepts, and the files read are the first min(10, file_count) of them
\* in listing order.
C18_SampleIsFirstCodeFiles ==
  (tree_out # << >> /\ tree_in.listed)
    => LET files == tree_in.files
           code == CodePositions(files)
           nth(j) == CHOOSE i \in code :
                       Cardinality({k \in code : k < i}) = j - 1
       IN  /\ tree_out[1].file_count = Cardinality(code)
           /\ Len(tree_reads) = Min(10, Cardinality(code))
           /\ \A j \in 1 .. Len(tree_reads) : tree_reads[j] = files[nth(j)]

\* the listing starts with a text file and has more than ten code files
C18_Witness ==
  /\ tree_out # << >>
  /\ tree_in.listed
  /\ Len(tree_in.files) > 0
  /\ ~is_code_file(tree_in.files[1])
  /\ tree_out[1].file_count > 10
  /\ Len(tree_reads) = 10

\* the branch names observed in a batch
NamesOf(batch) == UNION {Range(batch[i].branches) : i \in 1 .. Len(batch)}

\* the place of a branch name among the names S in lexicographic order,
\* counted from 0
SortedIndex(b, S) ==
  LET pos(x) == CHOOSE i \in 1 .. Len(BranchOrder) : BranchOrder[i] = x
  IN  Cardinality({x \in S : pos(x) < pos(b)})

\* the last refresh asked for has made its branch pass over the batch on
\* display, and nothing else runs
PassedLatest ==
  /\ nreq >= 1
  /\ Quiet
  /\ wstage[nreq] = "passed"
  /\ timeline_data = nreq

\* C19: after a refresh, every branch name observed in the batch has the
\* color palette[i mod 8], i being the name's index among the sorted names
\* of the batch; the colors are a function of that set of names.
C19_ColorBySortedIndex ==
  PassedLatest
    => LET names == NamesOf(lists[timeline_data])
       IN  \A b \in names :
             /\ b \in DOMAIN branch_colors
             /\ branch_colors[b] = SortedIndex(b, names) % 8

\* a batch with more names than the palette has colors: the ninth name,
\* main, has the first color again
C19_Witness ==
  /\ PassedLatest
  /\ Cardinality(NamesOf(lists[timeline_data])) > 8
  /\ SortedIndex("main", NamesOf(lists[timeline_data])) = 8
  /\ branch_colors["main"] = 0

\* C20: the color map holds nothing of an earlier refresh: after any
\* sequence of refreshes its keys are the branch names observed in the
\* latest batch.
C20_ColorsOfLatestBatchOnly ==
  PassedLatest => DOMAIN branch_colors = NamesOf(lists[timeline_data])

\* C21: after the branch pass, the branches of every record of the batch
\* are the local branches whose tip has the record's commit as an
\* ancestor, each once; none is left out because a test raised.
C21_BranchesAreTheContainingHeads ==
  PassedLatest
    => \A i \in 1 .. Len(lists[timeline_data]) :
         LET r == lists[timeline_data][i]
             containing == {b \in heads : is_ancestor(r.commit, Tip(b))}
         IN  /\ Range(r.branches) = containing
             /\ Len(r.branches) = Cardinality(containing)

\* the extension of a path and the path's last component without it
ExtensionOf(p) == splitext(p)
StemOf(p) == SubSeq(basename(p), 1, Len(basename(p)) - Len(splitext(p)))

\* C22: is_code_file is true exactly when the lowercased extension of the
\* path is in the extension list, or its lowercased base filename without
\* the extension is in the filename list, also for a filename with several
\* dots.
C22_ExtensionOrBareName ==
  \A i \in 1 .. Len(code_out) :
    code_out[i]
      <=> \/ ExtensionOf(lower(code_path)) \in CODE_EXTENSIONS
          \/ StemOf(lower(code_path)) \in code_filenames

SoundTotals(t) ==
  /\ t.total_lines = t.code_lines + t.blank_lines
  /\ t.total_lines >= 0
  /\ t.code_lines >= 0
  /\ t.blank_lines >= 0

\* C27: the project-wide totals of every record satisfy total_lines =
\* code_lines + blank_lines with all three non-negative, whether they are
\* estimated, all zero or the default of a failure.
C27_TotalsAddUp ==
  /\ tree_out # << >> => SoundTotals(tree_out[1])
  /\ rec_out # << >> => SoundTotals(rec_out[1].tloc_data)
  /\ \A l \in ListIds : \A i \in 1 .. Len(lists[l]) :
       SoundTotals(lists[l][i].tloc_data)

\* totals were estimated from a sample, with blank lines among them
C27_Witness ==
  /\ tree_out # << >>
  /\ tree_out[1].code_lines > 0
  /\ tree_out[1].blank_lines > 0

RECURSIVE ExactCodeLines(_, _)
\* the code lines of the files at the given positions of a tree, counted
\* on the files themselves
ExactCodeLines(tree, positions) ==
  IF positions = {} THEN 0
  ELSE LET i == CHOOSE k \in positions : TRUE
       IN  LineCounts(tree.blob[tree.files[i]].text)[2]
             + ExactCodeLines(tree, positions \ {i})

\* C30: for a tree of at most 10 code files, all of them readable,
\* code_lines is the sum of the code lines of all its code files; for a
\* tree of more than 10 code files it is at least the sum of the sampled
\* counts.
C30_SmallTreeIsExact ==
  (tree_out # << >> /\ tree_in.listed)
    => LET code == CodePositions(tree_in.files)
           readable == \A i \in code : tree_in.files[i] \notin tree_in.fails
       IN  /\ (Cardinality(code) <= 10 /\ readable)
                => tree_out[1].code_lines = ExactCodeLines(tree_in, code)
           /\ Cardinality(code) > 10
                => tree_out[1].code_lines
                     >= SampleSum(SampleReads(tree_in))

\* C28: selected_commit is None or a record of the list self.timeline_data
\* is bound to; no refresh leaves it on a record of a discarded batch.
C28_SelectionInCurrentBatch ==
  selected_commit # << >>
    => /\ selected_commit[1] = timeline_data
       /\ selected_commit[2] <= Len(lists[timeline_data])

\* the window shows what on_timeline_paint draws of the batch on display
DrawingIsCurrent ==
  /\ lists[timeline_data] # << >>
  /\ painted = BatchKind(lists[timeline_data])
  /\ lanes = LanesOf(branch_colors)

\* C29: after any sequence of refreshes, the column in which a branch is
\* drawn is the branch's index among the sorted branch names of the
\* current batch, its color is palette[column mod 8], and no column goes
\* to a branch that is absent from the current batch.
C29_LaneIsSortedIndexInBatch ==
  PassedLatest /\ DrawingIsCurrent
    => LET names == NamesOf(lists[timeline_data])
       IN  \A j \in 1 .. Len(lanes) :
             /\ lanes[j].branch \in names
             /\ SortedIndex(lanes[j].branch, names) = j - 1
             /\ lanes[j].color = (j - 1) % 8

\* the rows of a file, one per record of the batch in batch order, are as
\* documented
RowsAsDocumented(rows, batch) ==
  /\ Len(rows) = Len(batch) + 1
  /\ rows[1] = CsvHeader
  /\ \A i \in 1 .. Len(batch) :
       LET row == rows[i + 1]
           text == message(batch[i].commit)
       IN  /\ Len(row) = 15
           /\ row[1] = hexsha(batch[i].commit)
           /\ Len(row[6]) = Len(text)
           /\ \A k \in 1 .. Len(text) :
                row[6][k] = IF text[k] = "\n" THEN " " ELSE text[k]
           /\ row[8] = Str(Len(batch[i].affected_files))
           /\ row[9] = Str(Len(batch[i].files_added))
           /\ row[10] = Str(Len(batch[i].files_modified))
           /\ row[11] = Str(Len(batch[i].files_deleted))

\* C25: an export of a non-empty batch writes the header row and then one
\* row per record, in batch order, of 15 columns, the message with its
\* newlines turned into spaces and the four file columns the sizes of the
\* record's lists; an export of an empty batch writes no file.
C25_ExportWritesBatch ==
  [][(\E ok, opens \in BOOLEAN : OnExport(ok, opens))
       => LET batch == lists[timeline_data]
          IN  /\ batch = << >> => csv_file' = csv_file
              /\ export_box' = "Export Complete"
                   => /\ batch # << >>
                      /\ csv_file' # << >>
                      /\ RowsAsDocumented(csv_file'[1], batch)]_vars

\* a file with the rows of two records, the first with a message of
\* several lines
C25_Witness ==
  /\ export_box = "Export Complete"
  /\ csv_file # << >>
  /\ Len(csv_file[1]) = 3
  /\ csv_file[1][2][1] = hexsha(2)
  /\ csv_file[1][2][6] = << "fix", " ", " ", "body", " ", "more" >>

\* the revision an entry of the branch chooser stands for
RevOfEntry(entry) ==
  IF entry = "All Branches" THEN "--all"
  ELSE IF entry \in Range(BranchOrder) THEN entry
  ELSE "HEAD"

\* C26: whether HEAD is on a branch or detached, the worker walks --all
\* for "All Branches", HEAD for the "Current" entry and the named branch
\* for an entry that names a branch, never HEAD for such an entry.
C26_WalkOfSelectedEntry ==
  \A w \in Gens :
    pc[w] = "walk"
      => /\ wsel[w] >= 0
         /\ wsel[w] < Len(items)
         /\ WalkRev(w) = RevOfEntry(items[wsel[w] + 1])

\* HEAD is detached, the entry selected is dev and the worker is about to
\* walk dev
C26_Witness ==
  \E w \in Gens :
    /\ pc[w] = "walk"
    /\ repo = "detached"
    /\ items[wsel[w] + 1] = "dev"
    /\ WalkRev(w) = "dev"
    /\ IterCommits(repo, heads, WalkRev(w), SpinMax).commits = << 3, 1 >>
====
